---- MODULE Spec2Model ----
(***************************************************************************)
(* A model of jsonTool's editable tree-model-over-JSON: TreeItem and       *)
(* JsonModel (core/json_model.py), JSONDocument (core/document.py) and the *)
(* view-state protocol of EditorTab / ViewerTab (ui/tab_editor.py,         *)
(* ui/tab_viewer.py).                                                       *)
(*                                                                         *)
(* Python strings are sequences of one-character strings, so that parsing, *)
(* trimming, lower-casing and sorting are computed and not assumed.        *)
(* A JSON value is a record tagged with its Python type name:              *)
(*   [t |-> "NoneType"], [t |-> "bool", b |-> ..], [t |-> "int", n |-> ..],*)
(*   [t |-> "str", s |-> chars], [t |-> "list", e |-> <<values>>],         *)
(*   [t |-> "dict", m |-> <<[k |-> chars, v |-> value], ...>>]             *)
(* where a dict keeps its members in insertion order, as a Python dict.    *)
(***************************************************************************)
EXTENDS Integers, Sequences, FiniteSets, TLC

VARIABLES
    items,      \* model id -> the TreeItem objects of the model's current tree (item 1 is _rootItem)
    document,   \* the JSONDocument: [data, file_path]
    view,       \* tab id -> the QTreeView state and the tab's saved / pending view state
    locked,     \* ViewerTab._pane1_locked_to_file
    history,    \* MainWindow: [files, index, prefix, workspace]: _history_files, _history_index,
                \* _snapshot_prefix and the snapshot files in the workspace directory
    input,      \* the value or text handed to the operation under study
    steps,      \* operations the run may still perform
    last,       \* the last operation: its name, arguments, return value and the state before it
    log,        \* the signals and calls of the last operation, in order
    pool,       \* the _LoadRunnables handed to the QThreadPool, in the order of the calls
    queue       \* the slot calls posted to the UI thread's event loop, oldest first

vars == <<items, document, view, locked, history, input, steps, last, log, pool, queue>>

----------------------------------------------------------------------------
(* Bounds *)

\* nodes below the root in the values drawn for the round trip
MaxSize == 3
\* TreeItems below the root that an edit may leave in the editor's tree
MaxNodes == 8
\* operations explored in one run of the application
MaxSteps == 3
\* operations explored in one run with view interaction and history
MaxHistorySteps == 4
\* snapshot files kept in the workspace
MaxSnapshots == 2
\* largest scroll bar value
MaxScroll == 1
\* calls of load_async in one run
MaxLoads == 2
\* operations and thread steps explored in one run with background loads
MaxAsyncSteps == 14

----------------------------------------------------------------------------
(* Characters and strings *)

\* the characters used, in code point order (what Python's str comparison uses)
CharOrder ==
    << " ", "\"", ",", "0", "1", "2", "3", "5", ":",
       "A", "E", "F", "L", "N", "R", "S", "T", "U",
       "[", "]",
       "a", "b", "c", "e", "f", "l", "n", "o", "r", "s", "t", "u", "x", "z",
       "{", "}" >>

Rank(c) == CHOOSE i \in 1..Len(CharOrder) : CharOrder[i] = c

RECURSIVE StrLess(_, _)
\* a < b for two Python strings
StrLess(a, b) ==
    IF b = <<>> THEN FALSE
    ELSE IF a = <<>> THEN TRUE
    ELSE IF Head(a) = Head(b) THEN StrLess(Tail(a), Tail(b))
    ELSE Rank(Head(a)) < Rank(Head(b))

IsSpace(c) == c = " "

RECURSIVE LStrip(_)
LStrip(s) == IF s # <<>> /\ IsSpace(Head(s)) THEN LStrip(Tail(s)) ELSE s

RECURSIVE RStrip(_)
RStrip(s) ==
    IF s # <<>> /\ IsSpace(s[Len(s)]) THEN RStrip(SubSeq(s, 1, Len(s) - 1)) ELSE s

\* str.strip()
Strip(s) == RStrip(LStrip(s))

LowerChar(c) ==
    CASE c = "A" -> "a" [] c = "E" -> "e" [] c = "F" -> "f" [] c = "L" -> "l"
      [] c = "N" -> "n" [] c = "R" -> "r" [] c = "S" -> "s" [] c = "T" -> "t"
      [] c = "U" -> "u" [] OTHER -> c

\* str.lower()
Lower(s) == [i \in 1..Len(s) |-> LowerChar(s[i])]

Digits == {"0", "1", "2", "3", "5"}

DigitVal(c) ==
    CASE c = "0" -> 0 [] c = "1" -> 1 [] c = "2" -> 2 [] c = "3" -> 3 [] c = "5" -> 5

----------------------------------------------------------------------------
(* JSON values *)

VNull == [t |-> "NoneType"]
VBool(b) == [t |-> "bool", b |-> b]
VInt(n) == [t |-> "int", n |-> n]
VStr(s) == [t |-> "str", s |-> s]
VList(e) == [t |-> "list", e |-> e]
VDict(m) == [t |-> "dict", m |-> m]

\* isinstance(v, (dict, list))
IsContainer(v) == v.t \in {"dict", "list"}

\* type(v)
TypeOf(v) == v.t

DictKeys(d) == {d.m[i].k : i \in 1..Len(d.m)}

DictHas(d, k) == \E i \in 1..Len(d.m) : d.m[i].k = k

\* d[k]
DictGet(d, k) == d.m[CHOOSE i \in 1..Len(d.m) : d.m[i].k = k].v

\* d[k] = v: an existing key keeps its position, a new key goes last
DictSet(d, k, v) ==
    IF DictHas(d, k)
    THEN VDict([i \in 1..Len(d.m) |-> IF d.m[i].k = k THEN [k |-> k, v |-> v] ELSE d.m[i]])
    ELSE VDict(Append(d.m, [k |-> k, v |-> v]))

\* the dict without key k (the effect of d.pop(k) on d)
DictPop(d, k) == VDict(SelectSeq(d.m, LAMBDA kv : kv.k # k))

RECURSIVE StructEq(_, _)
\* structural equality that also compares kinds: same member keys and values
\* for objects (order-insensitive), same length and order for arrays
StructEq(a, b) ==
    IF a.t # b.t THEN FALSE
    ELSE CASE a.t = "NoneType" -> TRUE
           [] a.t = "bool" -> a.b = b.b
           [] a.t = "int" -> a.n = b.n
           [] a.t = "str" -> a.s = b.s
           [] a.t = "list" ->
                /\ Len(a.e) = Len(b.e)
                /\ \A i \in 1..Len(a.e) : StructEq(a.e[i], b.e[i])
           [] a.t = "dict" ->
                /\ Len(a.m) = Len(b.m)
                /\ DictKeys(a) = DictKeys(b)
                /\ \A k \in DictKeys(a) : StructEq(DictGet(a, k), DictGet(b, k))

----------------------------------------------------------------------------
(* json.loads on the characters above (no escapes, no floats, no sign) *)

ParseFail == [ok |-> FALSE]

RECURSIVE SkipWs(_, _)
\* the index of the first non-blank character at or after i
SkipWs(s, i) == IF i <= Len(s) /\ IsSpace(s[i]) THEN SkipWs(s, i + 1) ELSE i

\* s[i:i+len(w)] == w
StartsWith(s, i, w) ==
    /\ i + Len(w) - 1 <= Len(s)
    /\ SubSeq(s, i, i + Len(w) - 1) = w

RECURSIVE CloseQuote(_, _)
\* the index of the next double quote at or after i, or 0
CloseQuote(s, i) ==
    IF i > Len(s) THEN 0 ELSE IF s[i] = "\"" THEN i ELSE CloseQuote(s, i + 1)

\* a string literal whose opening quote is at i
ParseString(s, i) ==
    LET j == CloseQuote(s, i + 1)
    IN  IF j = 0 THEN ParseFail
        ELSE [ok |-> TRUE, val |-> VStr(SubSeq(s, i + 1, j - 1)), end |-> j + 1]

RECURSIVE DigitsEnd(_, _)
\* the index after the run of digits starting at i
DigitsEnd(s, i) == IF i <= Len(s) /\ s[i] \in Digits THEN DigitsEnd(s, i + 1) ELSE i

RECURSIVE DecimalValue(_)
DecimalValue(ds) ==
    IF ds = <<>> THEN 0
    ELSE 10 * DecimalValue(SubSeq(ds, 1, Len(ds) - 1)) + DigitVal(ds[Len(ds)])

\* the number at i: 0, or a non-zero digit followed by digits (longest match)
ParseNumber(s, i) ==
    LET j == IF s[i] = "0" THEN i + 1 ELSE DigitsEnd(s, i)
    IN  [ok |-> TRUE, val |-> VInt(DecimalValue(SubSeq(s, i, j - 1))), end |-> j]

RECURSIVE ScanOnce(_, _), ParseArray(_, _, _), ParseObject(_, _, _)

\* the JSON value that starts at i
ScanOnce(s, i) ==
    IF i > Len(s) THEN ParseFail
    ELSE CASE s[i] = "\"" -> ParseString(s, i)
           [] s[i] = "{" ->
                LET j == SkipWs(s, i + 1)
                IN  IF j <= Len(s) /\ s[j] = "}"
                    THEN [ok |-> TRUE, val |-> VDict(<<>>), end |-> j + 1]
                    ELSE ParseObject(s, j, VDict(<<>>))
           [] s[i] = "[" ->
                LET j == SkipWs(s, i + 1)
                IN  IF j <= Len(s) /\ s[j] = "]"
                    THEN [ok |-> TRUE, val |-> VList(<<>>), end |-> j + 1]
                    ELSE ParseArray(s, j, <<>>)
           [] StartsWith(s, i, <<"n", "u", "l", "l">>) ->
                [ok |-> TRUE, val |-> VNull, end |-> i + 4]
           [] StartsWith(s, i, <<"t", "r", "u", "e">>) ->
                [ok |-> TRUE, val |-> VBool(TRUE), end |-> i + 4]
           [] StartsWith(s, i, <<"f", "a", "l", "s", "e">>) ->
                [ok |-> TRUE, val |-> VBool(FALSE), end |-> i + 5]
           [] s[i] \in Digits -> ParseNumber(s, i)
           [] OTHER -> ParseFail

\* the elements of an array from i on, acc being those already read
ParseArray(s, i, acc) ==
    LET r == ScanOnce(s, i)
    IN  IF ~r.ok THEN ParseFail
        ELSE LET j == SkipWs(s, r.end)
                 got == Append(acc, r.val)
             IN  IF j > Len(s) THEN ParseFail
                 ELSE IF s[j] = "]" THEN [ok |-> TRUE, val |-> VList(got), end |-> j + 1]
                 ELSE IF s[j] = "," THEN ParseArray(s, SkipWs(s, j + 1), got)
                 ELSE ParseFail

\* the members of an object from i on, acc being the dict built so far
ParseObject(s, i, acc) ==
    IF i > Len(s) \/ s[i] # "\"" THEN ParseFail
    ELSE LET k == ParseString(s, i)
         IN  IF ~k.ok THEN ParseFail
             ELSE LET c == SkipWs(s, k.end)
                  IN  IF c > Len(s) \/ s[c] # ":" THEN ParseFail
                      ELSE LET r == ScanOnce(s, SkipWs(s, c + 1))
                           IN  IF ~r.ok THEN ParseFail
                               ELSE LET j == SkipWs(s, r.end)
                                        got == DictSet(acc, k.val.s, r.val)
                                    IN  IF j > Len(s) THEN ParseFail
                                        ELSE IF s[j] = "}"
                                        THEN [ok |-> TRUE, val |-> got, end |-> j + 1]
                                        ELSE IF s[j] = ","
                                        THEN ParseObject(s, SkipWs(s, j + 1), got)
                                        ELSE ParseFail

\* json.loads(s): one value, blanks around it, nothing after it
JsonLoads(s) ==
    LET r == ScanOnce(s, SkipWs(s, 1))
    IN  IF r.ok /\ SkipWs(s, r.end) > Len(s) THEN [ok |-> TRUE, val |-> r.val]
        ELSE ParseFail

\* a parse whose fallback compares the trimmed text as typed, not lower-cased
ParseUserInputCaseSensitive(text) ==
    LET s == Strip(text)
        r == JsonLoads(s)
    IN  IF r.ok THEN r.val
        ELSE IF s = <<"t", "r", "u", "e">> THEN VBool(TRUE)
        ELSE IF s = <<"f", "a", "l", "s", "e">> THEN VBool(FALSE)
        ELSE IF s = <<"n", "u", "l", "l">> THEN VNull
        ELSE VStr(s)

\* JsonModel._parse_user_input
ParseUserInput(text) ==
    LET s == Strip(text)
        r == JsonLoads(s)
        low == Lower(s)
    IN  IF r.ok THEN r.val
        ELSE IF low = <<"t", "r", "u", "e">> THEN VBool(TRUE)
        ELSE IF low = <<"f", "a", "l", "s", "e">> THEN VBool(FALSE)
        ELSE IF low = <<"n", "u", "l", "l">> THEN VNull
        ELSE VStr(s)

----------------------------------------------------------------------------
(* TreeItem: the objects of one tree are a sequence, an item's identity is  *)
(* its position in it, 0 is None                                            *)

\* a key is a str (object member) or an int (array index)
KStr(s) == [str |-> s]
KInt(i) == [int |-> i]

\* the value_type of a TreeItem nobody has tagged yet (None)
NoType == "None"

\* TreeItem.__init__
NewItem(parent) ==
    [parent |-> parent, key |-> KStr(<<>>), value |-> VStr(<<>>),
     value_type |-> NoType, children |-> <<>>]

RECURSIVE InsertSorted(_, _)
InsertSorted(kv, sorted) ==
    IF sorted = <<>> THEN <<kv>>
    ELSE IF StrLess(kv.k, Head(sorted).k) THEN <<kv>> \o sorted
    ELSE <<Head(sorted)>> \o InsertSorted(kv, Tail(sorted))

RECURSIVE SortedItems(_)
\* sorted(value.items()): the members by key, keys being distinct
SortedItems(m) ==
    IF m = <<>> THEN <<>>
    ELSE InsertSorted(m[Len(m)], SortedItems(SubSeq(m, 1, Len(m) - 1)))

\* enumerate(value) yielding the elements last to first
EnumeratedReversed(e) ==
    [i \in 1..Len(e) |-> [k |-> KInt(i - 1), v |-> e[Len(e) + 1 - i]]]

\* enumerate(value, 1): the indices counted from one
EnumeratedFromOne(e) == [i \in 1..Len(e) |-> [k |-> KInt(i), v |-> e[i]]]

\* enumerate(value) of a list, as (key, value) pairs
Enumerated(e) == [i \in 1..Len(e) |-> [k |-> KInt(i - 1), v |-> e[i]]]

StrKeyed(m) == [i \in 1..Len(m) |-> [k |-> KStr(m[i].k), v |-> m[i].v]]

RECURSIVE TreeItemLoad(_, _, _, _), LoadChildren(_, _, _)

\* TreeItem.load(value, parent, sort): heap with the new subtree appended,
\* the new item being Len(heap) + 1
TreeItemLoad(value, parent, sort, heap) ==
    LET rootItem == Len(heap) + 1
        h0 == Append(heap, [NewItem(parent) EXCEPT !.key = KStr(<<"r", "o", "o", "t">>)])
    IN  IF value.t = "dict"
        THEN LoadChildren(StrKeyed(IF sort THEN SortedItems(value.m) ELSE value.m),
                          rootItem, h0)
        ELSE IF value.t = "list"
        THEN LoadChildren(Enumerated(value.e), rootItem, h0)
        ELSE [h0 EXCEPT ![rootItem].value = value,
                        ![rootItem].value_type = TypeOf(value)]

\* the loop bodies of TreeItem.load: one child per (key, value), in order;
\* the recursive call leaves sort at its default, True
LoadChildren(kvs, rootItem, heap) ==
    IF kvs = <<>> THEN heap
    ELSE LET child == Len(heap) + 1
             h1 == TreeItemLoad(Head(kvs).v, rootItem, TRUE, heap)
             h2 == [h1 EXCEPT ![child].key = Head(kvs).k,
                              ![child].value_type = TypeOf(Head(kvs).v),
                              ![rootItem].children = Append(@, child)]
         IN  LoadChildren(Tail(kvs), rootItem, h2)

\* JsonModel.__init__: self._rootItem = TreeItem()
EmptyTree == <<NewItem(0)>>

\* the tree JsonModel.load installs: TreeItem.load(document), root tagged
JsonModelTree(doc) ==
    [TreeItemLoad(doc, 0, TRUE, <<>>) EXCEPT ![1].value_type = TypeOf(doc)]

RootItem == 1

\* TreeItem.childCount
ChildCount(heap, item) == Len(heap[item].children)

\* TreeItem.child
Child(heap, item, row) == heap[item].children[row + 1]

\* a row that is 0 for every item
RowAlwaysZero(heap, item) == 0

\* TreeItem.row
Row(heap, item) ==
    IF heap[item].parent # 0
    THEN CHOOSE r \in 0..(ChildCount(heap, heap[item].parent) - 1) :
            heap[heap[item].parent].children[r + 1] = item
    ELSE 0

RECURSIVE ToJson(_, _), ToJsonDict(_, _, _)

\* the dict branch of to_json: document[ch.key] = self.to_json(ch) per child
ToJsonDict(heap, chs, acc) ==
    IF chs = <<>> THEN acc
    ELSE ToJsonDict(heap, Tail(chs),
                    DictSet(acc, heap[Head(chs)].key.str, ToJson(heap, Head(chs))))

\* JsonModel.to_json(item)
ToJson(heap, item) ==
    IF heap[item].value_type = "dict"
    THEN ToJsonDict(heap, heap[item].children, VDict(<<>>))
    ELSE IF heap[item].value_type = "list"
    THEN VList([i \in 1..ChildCount(heap, item) |-> ToJson(heap, heap[item].children[i])])
    ELSE heap[item].value

RECURSIVE ItemPath(_, _)
\* JsonModel._item_path / _index_to_path: the keys from below the root to item
ItemPath(heap, item) ==
    IF heap[item].parent = 0 THEN <<>>
    ELSE Append(ItemPath(heap, heap[item].parent), heap[item].key)

\* ref[k] for a key of either kind
GetItem(ref, k) == IF ref.t = "dict" THEN DictGet(ref, k.str) ELSE ref.e[k.int + 1]

\* ref[k] = v
SetItem(ref, k, v) ==
    IF ref.t = "dict" THEN DictSet(ref, k.str, v)
    ELSE VList([ref.e EXCEPT ![k.int + 1] = v])

RECURSIVE SetByPath(_, _, _)
\* data after "ref = data; for k in path[:-1]: ref = ref[k]; ref[path[-1]] = new_value"
SetByPath(data, path, new_value) ==
    IF Len(path) = 1 THEN SetItem(data, path[1], new_value)
    ELSE SetItem(data, path[1], SetByPath(GetItem(data, path[1]), Tail(path), new_value))

RECURSIVE GetByPath(_, _)
GetByPath(data, path) ==
    IF path = <<>> THEN data ELSE GetByPath(GetItem(data, path[1]), Tail(path))

----------------------------------------------------------------------------
(* JsonModel as an item model: indexes, navigation and display text *)

\* QModelIndex(): the invalid index (its row and column are -1)
InvalidIndex == [valid |-> FALSE, row |-> -1, column |-> -1, item |-> 0]

\* QAbstractItemModel.createIndex(row, column, item)
CreateIndex(row, column, item) ==
    [valid |-> TRUE, row |-> row, column |-> column, item |-> item]

\* "self._rootItem if not parent.isValid() else parent.internalPointer()"
ParentItem(parent) == IF ~parent.valid THEN RootItem ELSE parent.item

\* JsonModel.rowCount(parent)
RowCount(heap, parent) ==
    IF parent.column > 0 THEN 0 ELSE ChildCount(heap, ParentItem(parent))

\* JsonModel.columnCount(parent)
ColumnCount(parent) == 2

\* QAbstractItemModel.hasIndex(row, column, parent)
HasIndex(heap, row, column, parent) ==
    /\ row >= 0 /\ column >= 0
    /\ row < RowCount(heap, parent)
    /\ column < ColumnCount(parent)

\* JsonModel.index(row, column, parent); a TreeItem is always true
ModelIndex(heap, row, column, parent) ==
    IF ~HasIndex(heap, row, column, parent) THEN InvalidIndex
    ELSE CreateIndex(row, column, Child(heap, ParentItem(parent), row))

\* JsonModel.parent(index)
ModelParent(heap, index) ==
    IF ~index.valid THEN InvalidIndex
    ELSE LET parentItem == heap[index.item].parent
         IN  IF parentItem = RootItem THEN InvalidIndex
             ELSE CreateIndex(Row(heap, parentItem), 0, parentItem)

RECURSIVE IntStr(_)
\* str(n) of a natural number
IntStr(n) ==
    LET d == << "0", "1", "2", "3", "4", "5", "6", "7", "8", "9" >>
    IN  IF n < 10 THEN << d[n + 1] >> ELSE IntStr(n \div 10) \o << d[(n % 10) + 1] >>

RECURSIVE Escaped(_)
\* the characters of a string as json.dumps writes them between the quotes
Escaped(s) ==
    IF s = <<>> THEN <<>>
    ELSE (IF Head(s) = "\"" THEN << "\\", "\"" >> ELSE << Head(s) >>) \o Escaped(Tail(s))

\* json.dumps of a str
JsonDumpsStr(s) == << "\"" >> \o Escaped(s) \o << "\"" >>

\* JsonModel._json_key_repr(key, parent_is_list)
JsonKeyRepr(key, parent_is_list) ==
    IF parent_is_list THEN << "[" >> \o IntStr(key.int) \o << "]" >>
    ELSE JsonDumpsStr(key.str)

\* JsonModel._json_value_repr(value, value_type)
JsonValueRepr(value, value_type) ==
    CASE value_type = "dict" -> << "{", ".", ".", ".", "}" >>
      [] value_type = "list" -> << "[", ".", ".", ".", "]" >>
      [] value_type = "str" -> JsonDumpsStr(value.s)
      [] value_type = "int" -> IntStr(value.n)
      [] value_type = "bool" ->
            IF value.b THEN << "t", "r", "u", "e" >> ELSE << "f", "a", "l", "s", "e" >>
      [] OTHER -> << "n", "u", "l", "l" >>

\* a value column that shows every node through _json_value_repr
DisplayDataRepr(heap, item, column) ==
    JsonValueRepr(heap[item].value, heap[item].value_type)

\* JsonModel.data(index, DisplayRole), index being a valid index of item
\* in the given column
DisplayData(heap, item, column) ==
    IF column = 0
    THEN JsonKeyRepr(heap[item].key,
                     heap[item].parent # 0 /\ heap[heap[item].parent].value_type = "list")
            \o << ":" >>
    ELSE IF heap[item].value_type = "dict"
    THEN << "{", ".", ".", ".", "}", " ", " " >>
            \o << "/", "/", " " >> \o IntStr(ChildCount(heap, item)) \o << " ", "k", "e", "y" >>
    ELSE IF heap[item].value_type = "list"
    THEN << "[", ".", ".", ".", "]", " ", " " >>
            \o << "/", "/", " " >> \o IntStr(ChildCount(heap, item))
            \o << " ", "i", "t", "e", "m" >>
    ELSE JsonValueRepr(heap[item].value, heap[item].value_type)

----------------------------------------------------------------------------
(* The objects of the application and their wiring.  An operation runs on   *)
(* the single UI thread: it and every slot it reaches through a signal run  *)
(* to completion in one step.  A world w is the state an operation has      *)
(* reached so far: [items, document, view, locked, pool, queue, log, ret],  *)
(* and the thread that runs it.                                             *)

\* the JsonModel of EditorTab, the left-reader JsonModel of ViewerTab and
\* the json_model of TableTab: the three models bound to the document
ModelIds == {"editor", "viewer", "table"}

\* the tabs that connect _save_view_state and _restore_view_state to their
\* model's reset signals, and whose view state a snapshot's meta records
ViewStateTabs == {"editor", "viewer"}

\* Optional values: None, or a value
None == [isNone |-> TRUE]
Some(x) == [isNone |-> FALSE, val |-> x]

\* the file_path of a document without one (None)
NoPath == ""

\* a tab's QTreeView right after construction and the tab's own fields
InitView ==
    [expanded |-> {}, current |-> 0, scroll |-> 0,
     saved_expanded_paths |-> <<>>, saved_current_path |-> None, saved_scroll |-> 0,
     pending_restore_state |-> None]

Emit(w, e) == [w EXCEPT !.log = Append(@, e)]

RECURSIVE Dfs(_, _)
\* the items below item in the order the dfs of _save_view_state visits them
Dfs(heap, item) ==
    LET RECURSIVE Walk(_)
        Walk(chs) ==
            IF chs = <<>> THEN <<>>
            ELSE <<Head(chs)>> \o Dfs(heap, Head(chs)) \o Walk(Tail(chs))
    IN  Walk(heap[item].children)

\* the view state a tab reads off its tree view and model:
\* expanded paths in dfs order, path of the current index, scroll bar value
ViewStateOf(heap, v) ==
    LET order == Dfs(heap, RootItem)
        exp == SelectSeq(order, LAMBDA i : i \in v.expanded)
    IN  [expanded_paths |-> [n \in 1..Len(exp) |-> ItemPath(heap, exp[n])],
         current_path |-> IF v.current # 0 THEN Some(ItemPath(heap, v.current)) ELSE None,
         scroll |-> v.scroll]

\* a slot of modelAboutToBeReset that saves nothing
SaveViewStateNothing(w, tab) == w

\* EditorTab._save_view_state / ViewerTab._save_view_state (slot of modelAboutToBeReset)
SaveViewState(w, tab) ==
    LET st == ViewStateOf(w.items[tab], w.view[tab])
    IN  [w EXCEPT !.view[tab].saved_expanded_paths = st.expanded_paths,
                  !.view[tab].saved_current_path = st.current_path,
                  !.view[tab].saved_scroll = st.scroll]

RECURSIVE FindIndexByPath(_, _, _)
\* find_index_by_path of _restore_view_state, started at parent:
\* the item reached key by key (the root stands for the invalid index), -1 for None
FindIndexByPath(heap, parent, path) ==
    IF path = <<>> THEN parent
    ELSE LET chs == heap[parent].children
             hit == {r \in 1..Len(chs) : heap[chs[r]].key = path[1]}
         IN  IF hit = {} THEN -1
             ELSE FindIndexByPath(heap, chs[CHOOSE r \in hit : \A q \in hit : r <= q],
                                  Tail(path))

\* QTreeView.expand(idx): nothing for the invalid index
Expand(v, idx) == IF idx = RootItem THEN v ELSE [v EXCEPT !.expanded = @ \cup {idx}]

\* QTreeView.setCurrentIndex(idx): the invalid index clears the current index
SetCurrentIndex(v, idx) == [v EXCEPT !.current = IF idx = RootItem THEN 0 ELSE idx]

RECURSIVE ExpandPaths(_, _, _)
\* "for p in expanded_paths: idx = find_index_by_path(p); if idx is not None: expand(idx)"
ExpandPaths(heap, v, paths) ==
    IF paths = <<>> THEN v
    ELSE LET idx == FindIndexByPath(heap, RootItem, Head(paths))
         IN  ExpandPaths(heap, IF idx # -1 THEN Expand(v, idx) ELSE v, Tail(paths))

\* EditorTab._restore_view_state / ViewerTab._restore_view_state (slot of modelReset)
RestoreViewState(w, tab) ==
    LET v == w.view[tab]
        heap == w.items[tab]
        state == IF ~v.pending_restore_state.isNone
                 THEN v.pending_restore_state.val
                 ELSE [expanded_paths |-> v.saved_expanded_paths,
                       current_path |-> v.saved_current_path,
                       scroll |-> v.saved_scroll]
        v1 == ExpandPaths(heap, v, state.expanded_paths)
        curp == state.current_path
        idx == FindIndexByPath(heap, RootItem, curp.val)
        v2 == IF ~curp.isNone /\ curp.val # <<>> /\ idx # -1
              THEN SetCurrentIndex(v1, idx) ELSE v1
    IN  [w EXCEPT !.view[tab] =
            [v2 EXCEPT !.scroll = state.scroll,
                       !.saved_expanded_paths = <<>>,
                       !.saved_current_path = None,
                       !.pending_restore_state = None]]

\* QTreeView's own slot of modelReset (connected by setModel, before the tab's):
\* the view forgets expansion and current index and shows the top
ViewReset(w, tab) ==
    [w EXCEPT !.view[tab].expanded = {}, !.view[tab].current = 0, !.view[tab].scroll = 0]

\* the log's note of the view a tab has restored
Restored(w, m) ==
    Emit(w, [ev |-> "restored", m |-> m, tree |-> w.items[m], view |-> w.view[m]])

\* QAbstractItemModel.beginResetModel: emits modelAboutToBeReset to its slots
BeginResetModel(w, m) ==
    IF m \in ViewStateTabs
    THEN SaveViewState(
            Emit(w, [ev |-> "modelAboutToBeReset", m |-> m, tree |-> w.items[m],
                     view |-> w.view[m]]), m)
    ELSE Emit(w, [ev |-> "modelAboutToBeReset", m |-> m, tree |-> w.items[m],
                  view |-> w.view[m]])

\* QAbstractItemModel.endResetModel: emits modelReset to its slots, in connection order
\* (the log then notes the view the tab's slot has left)
EndResetModel(w, m) ==
    IF m \in ViewStateTabs
    THEN Restored(
            RestoreViewState(
                ViewReset(Emit(w, [ev |-> "modelReset", m |-> m, tree |-> w.items[m]]), m),
                m), m)
    ELSE ViewReset(Emit(w, [ev |-> "modelReset", m |-> m, tree |-> w.items[m]]), m)

\* an assert that lets every value through
IsRootKindAny(doc) == TRUE

\* the assert of JsonModel.load: isinstance(document, (dict, list, tuple))
IsRootKind(doc) == IsContainer(doc)

\* a load that replaces the tree before it announces the reset
ModelLoadReplacingFirst(w, m, doc) ==
    LET w0 == Emit(w, [ev |-> "load", m |-> m, tree |-> w.items[m], arg |-> doc,
                       thread |-> w.thread])
    IN  IF ~IsRootKind(doc)
        THEN [Emit(w0, [ev |-> "AssertionError", m |-> m]) EXCEPT !.ret = "raised"]
        ELSE [EndResetModel(BeginResetModel([w0 EXCEPT !.items[m] = JsonModelTree(doc)], m), m)
                EXCEPT !.ret = "True"]

\* JsonModel.load(document)
ModelLoad(w, m, doc) ==
    LET w0 == Emit(w, [ev |-> "load", m |-> m, tree |-> w.items[m], arg |-> doc,
                       thread |-> w.thread])
    IN  IF ~IsRootKind(doc)
        THEN [Emit(w0, [ev |-> "AssertionError", m |-> m]) EXCEPT !.ret = "raised"]
        ELSE LET w1 == BeginResetModel(w0, m)
                 w2 == [w1 EXCEPT !.items[m] = JsonModelTree(doc)]
                 w3 == EndResetModel(w2, m)
             IN  [w3 EXCEPT !.ret = "True"]

\* ViewerTab.on_document_changed(data)
ViewerOnDocumentChanged(w, data) ==
    IF ~w.locked THEN ModelLoad(w, "viewer", data) ELSE w

\* EditorTab.on_document_changed(data)
EditorOnDocumentChanged(w, data) == ModelLoad(w, "editor", data)

\* TableTab.on_document_changed(data)
TableOnDocumentChanged(w, data) == ModelLoad(w, "table", data)

\* the slot a tab has connected to JSONDocument.dataChanged
OnDocumentChanged(w, tab, data) ==
    IF tab = "viewer" THEN ViewerOnDocumentChanged(w, data)
    ELSE IF tab = "editor" THEN EditorOnDocumentChanged(w, data)
    ELSE TableOnDocumentChanged(w, data)

\* the thread a tab lives in: the one that constructed it in MainWindow.__init__
TabThread == "ui"

\* a connection that calls the slot in the emitting thread, whatever it is
QueuedNever(thread) == FALSE

\* the connections are of the default type (AutoConnection): the call of a
\* slot is queued when the signal is emitted in a thread other than the
\* receiver's, and is made on the spot otherwise
Queued(thread) == thread # TabThread

\* the signal reaches one tab's slot: called now, or posted to the UI
\* thread's event loop with the argument of the signal
Deliver(w, tab, data) ==
    IF Queued(w.thread)
    THEN [w EXCEPT !.queue = Append(@, [slot |-> tab, data |-> data])]
    ELSE OnDocumentChanged(w, tab, data)

\* JSONDocument.dataChanged.emit(data): the slots in connection order
\* (ViewerTab is constructed first, then EditorTab, then TableTab); an
\* exception raised in a slot ends that slot only
DocumentDataChanged(w, data) ==
    Deliver(
        Deliver(
            Deliver(Emit(w, [ev |-> "document.dataChanged", m |-> "document"]),
                    "viewer", data),
            "editor", data),
        "table", data)

\* JSONDocument.set_data(data)
DocumentSetData(w, data) ==
    DocumentDataChanged([w EXCEPT !.document = [data |-> data, file_path |-> NoPath]], data)

\* JSONDocument.load(path) of a file that holds the value data
DocumentLoad(w, path, data) ==
    DocumentDataChanged([w EXCEPT !.document = [data |-> data, file_path |-> path]], data)

\* JSONDocument.load(path) of a file that open() or json.load() refuses:
\* the exception leaves the method before anything is assigned
DocumentLoadRaises(w, path) ==
    [Emit(w, [ev |-> "load raised", m |-> "document", path |-> path]) EXCEPT !.ret = "raised"]

\* a slot that hands the export to the document and, once the tabs have
\* reloaded, hands it over again
OnModelDataChangedAgain(w) ==
    DocumentSetData(DocumentSetData(w, ToJson(w.items["editor"], RootItem)),
                    ToJson(w.items["editor"], RootItem))

\* EditorTab._on_model_data_changed (slot of the editor model's dataChanged)
OnModelDataChanged(w) == DocumentSetData(w, ToJson(w.items["editor"], RootItem))

\* JsonModel.dataChanged.emit(index, index, roles)
ModelDataChanged(w, m, item) ==
    LET w0 == Emit(w, [ev |-> "dataChanged", m |-> m, item |-> item, tree |-> w.items[m]])
    IN  IF m = "editor" THEN OnModelDataChanged(w0) ELSE w0

\* _set_value_by_path_and_reload that writes nothing and reloads nothing
SetValueByPathNoReload(w, m, path, new_value) == w

\* JsonModel._set_value_by_path_and_reload(path, new_value)
SetValueByPathAndReload(w, m, path, new_value) ==
    ModelLoad(w, m, SetByPath(ToJson(w.items[m], RootItem), path, new_value))

\* a rename that binds the new key and forgets to remove the old one
RenameKeepingOld(data, path, new_key) ==
    LET RECURSIVE Ren(_, _)
        Ren(d, p) ==
            IF Len(p) = 1
            THEN DictSet(d, new_key, DictGet(d, p[1].str))
            ELSE SetItem(d, p[1], Ren(GetItem(d, p[1]), Tail(p)))
    IN  Ren(data, path)

\* data after "ref[new_key] = ref.pop(last)" on the dict at path[:-1]
RenameByPath(data, path, new_key) ==
    LET RECURSIVE Ren(_, _)
        Ren(d, p) ==
            IF Len(p) = 1
            THEN DictSet(DictPop(d, p[1].str), new_key, DictGet(d, p[1].str))
            ELSE SetItem(d, p[1], Ren(GetItem(d, p[1]), Tail(p)))
    IN  Ren(data, path)

Return(w, r) == [w EXCEPT !.ret = r]

\* a value branch without the check of the node's kind
SetDataValueParsedUnchecked(w, m, item, parsed) ==
    LET heap == w.items[m]
        path == ItemPath(heap, item)
    IN  IF ~IsContainer(parsed)
        THEN Return(
                ModelDataChanged(
                    [w EXCEPT !.items[m][item].value = parsed,
                              !.items[m][item].value_type = TypeOf(parsed)],
                    m, item),
                "True")
        ELSE IF path = <<>> THEN Return(w, "False")
        ELSE Return(SetValueByPathAndReload(w, m, path, parsed), "True")

\* the value branch of JsonModel.setData (column 1), value already parsed
SetDataValueParsed(w, m, item, parsed) ==
    LET heap == w.items[m]
        path == ItemPath(heap, item)
    IN  IF heap[item].value_type \in {"dict", "list"} THEN Return(w, "False")
        ELSE IF ~IsContainer(parsed)
        THEN Return(
                ModelDataChanged(
                    [w EXCEPT !.items[m][item].value = parsed,
                              !.items[m][item].value_type = TypeOf(parsed)],
                    m, item),
                "True")
        ELSE IF path = <<>> THEN Return(w, "False")
        ELSE Return(SetValueByPathAndReload(w, m, path, parsed), "True")

\* the value branch of JsonModel.setData (column 1)
SetDataValueColumn(w, m, item, value) ==
    SetDataValueParsed(w, m, item, ParseUserInput(value))

\* a duplicate-name check that finds nothing
NoSiblingHasKey(heap, parent, item, new_key) == FALSE

\* the duplicate-name check of setData: another child of parent has str(key) == new_key
SiblingHasKey(heap, parent, item, new_key) ==
    \E i \in 1..ChildCount(heap, parent) :
        LET sib == heap[parent].children[i]
        IN  sib # item /\ heap[sib].key = KStr(new_key)

\* a key branch that renames by what the exported parent is, not checking
\* the parent item's kind first, and takes an index for a member key
SetDataKeyColumnUnchecked(w, m, item, new_key) ==
    LET heap == w.items[m]
        path == ItemPath(heap, item)
    IN  Return(ModelLoad(w, m,
                   SetByPath(ToJson(heap, RootItem), path, VStr(new_key))), "True")

\* the key branch of JsonModel.setData (column 0); new_key = str(value)
SetDataKeyColumn(w, m, item, new_key) ==
    LET heap == w.items[m]
        parent == heap[item].parent
        path == ItemPath(heap, item)
        data == ToJson(heap, RootItem)
        ref == GetByPath(data, SubSeq(path, 1, Len(path) - 1))
    IN  IF parent = 0 \/ heap[parent].value_type # "dict" THEN Return(w, "False")
        ELSE IF SiblingHasKey(heap, parent, item, new_key) THEN Return(w, "False")
        ELSE IF path = <<>> THEN Return(w, "False")
        ELSE IF ref.t = "list" THEN Return(w, "False")
        ELSE Return(ModelLoad(w, m, RenameByPath(data, path, new_key)), "True")

\* a model constructed with editable_values=True, whichever it is
EditableValuesAlways(m) == TRUE

\* JsonModel(editable_keys=..., editable_values=...) as each tab constructs it
EditableKeys(m) == m = "editor"
EditableValues(m) == m = "editor"

\* JsonModel.setData(index, value, role): index is an index of item, or the
\* invalid index (item 0)
JsonModelSetData(w, m, item, column, value, role) ==
    LET w0 == Emit(w, [ev |-> "setData", m |-> m, item |-> item, thread |-> w.thread])
    IN  IF role # "EditRole" \/ item = 0 THEN Return(w0, "False")
        ELSE IF column = 1 /\ EditableValues(m) THEN SetDataValueColumn(w0, m, item, value)
        ELSE IF column = 0 /\ EditableKeys(m) THEN SetDataKeyColumn(w0, m, item, value)
        ELSE Return(w0, "False")

----------------------------------------------------------------------------
(* MainWindow: the snapshot history (undo / redo) *)

\* capture_view_state of both tabs: the "tabs" object of a snapshot's meta file
CaptureMeta(w) ==
    [Editor |-> ViewStateOf(w.items["editor"], w.view["editor"]),
     Viewer |-> ViewStateOf(w.items["viewer"], w.view["viewer"])]

\* schedule_restore_view_state(state) on both tabs
ScheduleRestore(w, meta) ==
    [w EXCEPT !.view["editor"].pending_restore_state = Some(meta.Editor),
              !.view["viewer"].pending_restore_state = Some(meta.Viewer)]

\* EditorTab.current_json via MainWindow._collect_current_json
CollectCurrentJson(w) == ToJson(w.items["editor"], RootItem)

----------------------------------------------------------------------------
(* Inputs *)

\* contents of the files the user may open
FileTexts ==
    [f1 |-> << "{", "\"", "c", "\"", ":", "\"", "x", "\"", ",", " ",
               "\"", "a", "\"", ":", "[", "1", ",", " ",
               "{", "\"", "b", "\"", ":", "2", "}", "]", "}" >>,
     f2 |-> << "{", "\"", "b", "\"", ":", "[", "2", "]", ",",
               "\"", "a", "\"", ":", "[", "1", "]", "}" >>,
     f3 |-> << "[", "t", "r", "u", "e", ",", "{", "}", "]" >>,
     f4 |-> << "5" >>,
     f5 |-> << "{", "\"", "a", "\"", ":" >>]

Paths == {"f1", "f3", "f4"}

\* the files opened where the view is interacted with
HistoryPaths == {"f2", "f3"}

\* texts typed into the value column
ValueTexts ==
    { << "5" >>, << " ", "N", "u", "l", "l" >>,
      << "[", "1", ",", "2", ",", "3", "]" >>,
      << "{", "\"", "z", "\"", ":", "[", "]", "}" >>,
      << "n", "o", " " >> }

\* texts typed into the key column
KeyTexts == { << "z" >>, << "a" >>, << "b" >> }

\* the texts typed where the view is interacted with
HistoryValueTexts == { << "5" >> }
HistoryKeyTexts == { << "z" >> }

----------------------------------------------------------------------------
(* State *)

World ==
    [items |-> items, document |-> document, view |-> view, locked |-> locked,
     pool |-> pool, queue |-> queue, thread |-> "ui", log |-> <<>>, ret |-> "None"]

Before ==
    [items |-> items, view |-> view, document |-> document, pool |-> pool, queue |-> queue,
     history |-> history]

\* the state an operation leaves, and what it was
Commit(w, op) ==
    /\ steps > 0
    /\ \A m \in ModelIds : Len(w.items[m]) - 1 <= MaxNodes
    /\ steps' = steps - 1
    /\ items' = w.items
    /\ document' = w.document
    /\ view' = w.view
    /\ locked' = w.locked
    /\ pool' = w.pool
    /\ queue' = w.queue
    /\ log' = w.log
    /\ last' = op @@ [ret |-> w.ret, pre |-> Before]

NoOp == [op |-> "init", ret |-> "None"]

\* MainWindow.__init__: the workspace is cleared, no history, the prefix is "document"
NoHistory ==
    [files |-> <<>>, index |-> -1, prefix |-> "document", workspace |-> <<>>]

\* MainWindow.__init__: an empty JSONDocument, the tabs bound to it, no history
Init ==
    /\ items = [m \in ModelIds |-> EmptyTree]
    /\ document = [data |-> VNull, file_path |-> NoPath]
    /\ view = [m \in ModelIds |-> InitView]
    /\ locked = FALSE
    /\ history = NoHistory
    /\ input = VNull
    /\ steps = MaxSteps
    /\ last = NoOp
    /\ log = <<>>
    /\ pool = <<>>
    /\ queue = <<>>

\* the items below the root
Nodes(m) == 2..Len(items[m])

\* an edit through the tree view's delegate: model.setData(index, value, role)
SetData(m, item, column, value, role) ==
    /\ item \in Nodes(m)
    /\ Commit(JsonModelSetData(World, m, item, column, value, role),
              [op |-> "setData", m |-> m, item |-> item, column |-> column,
               value |-> value, role |-> role])
    /\ UNCHANGED <<history, input>>

\* _rebuild_history_list: the data snapshots of the workspace whose name
\* starts with the current prefix, sorted by name (that is, by time stamp)
RebuildHistoryList(h) ==
    [h EXCEPT !.files = SelectSeq(h.workspace, LAMBDA f : f.prefix = h.prefix)]

\* _refresh_history_buttons: rebuilds the list, then enables the buttons
RefreshHistoryButtons(h) == RebuildHistoryList(h)

\* the history pointing at the last file of its list
AtLast(h) == [h EXCEPT !.index = Len(h.files) - 1]

\* steps 1, 3 and 4 of _save_snapshot: the snapshot is written under the
\* current prefix and a later time stamp with the meta of both tabs, the
\* list is rebuilt and the pointer set to its last file
WriteSnapshot(w, h, data) ==
    [w |-> w,
     h |-> RefreshHistoryButtons(AtLast(RebuildHistoryList(
            [h EXCEPT !.workspace =
                Append(@, [prefix |-> h.prefix, stamp |-> Len(h.workspace) + 1,
                           data |-> data, meta |-> CaptureMeta(w)])])))]

\* MainWindow._save_snapshot(data, update_document): world and history after it
SaveSnapshot(w, h, data, update_document) ==
    IF data = VNull THEN [w |-> w, h |-> h]
    ELSE WriteSnapshot(IF update_document THEN DocumentSetData(w, data) ELSE w, h, data)

\* the first snapshot of _open_file_common(p): the prefix is the stem of p
\* (a path stands for its stem), the history and the workspace have been cleared
InitialSnapshot(w) ==
    SaveSnapshot(w, [files |-> <<>>, index |-> -1, prefix |-> w.document.file_path,
                     workspace |-> <<>>],
                 w.document.data, FALSE)

\* MainWindow._ask_store_to_database: Yes re-sets the document's data
AskStoreToDatabase(r, store) ==
    [w |-> IF store THEN DocumentSetData(r.w, r.w.document.data) ELSE r.w, h |-> r.h]

\* the state an operation of the main window leaves, history included
CommitHistory(r, op) ==
    /\ Commit(r.w, op)
    /\ history' = r.h

\* MainWindow._open_file_common(p); store is the user's answer to "store to
\* storage?" (Yes re-sets the document's data).  A file that is no JSON
\* makes document.load raise: the handler shows the error and returns
OpenFile(p, store) ==
    /\ CommitHistory(
            IF JsonLoads(FileTexts[p]).ok
            THEN AskStoreToDatabase(
                    InitialSnapshot(DocumentLoad(World, p, JsonLoads(FileTexts[p]).val)),
                    store)
            ELSE [w |-> DocumentLoadRaises(World, p), h |-> history],
            [op |-> "open", path |-> p, store |-> store])
    /\ UNCHANGED input

\* MainWindow._action_close_file
CloseFile ==
    /\ CommitHistory([w |-> DocumentSetData(World, VDict(<<>>)),
                      h |-> RefreshHistoryButtons(
                                [files |-> <<>>, index |-> -1, prefix |-> history.prefix,
                                 workspace |-> <<>>])],
                     [op |-> "close"])
    /\ UNCHANGED input

Next ==
    \/ \E item \in Nodes("editor"), value \in ValueTexts :
            SetData("editor", item, 1, value, "EditRole")
    \/ \E item \in Nodes("editor"), value \in KeyTexts :
            SetData("editor", item, 0, value, "EditRole")
    \/ \E p \in Paths, store \in BOOLEAN : OpenFile(p, store)
    \/ CloseFile

Spec == Init /\ [][Next]_vars

----------------------------------------------------------------------------
(* Round trip: JsonModel.load of a drawn value, then to_json *)

ScalarValues == {VNull, VBool(TRUE), VInt(1), VStr(<< "1" >>)}

\* member keys of the drawn objects, so an object has at most two members
MemberKeys == {<< "a" >>, << "b" >>}

\* the sequences of n distinct member keys, in any order
KeySeqs(n) ==
    {ks \in [1..n -> MemberKeys] : \A i, j \in 1..n : i # j => ks[i] # ks[j]}

RECURSIVE ValuesOfSize(_), Forests(_)

\* the sequences of values that have n nodes in all
Forests(n) ==
    IF n = 0 THEN {<<>>}
    ELSE UNION {{<<v>> \o f : v \in ValuesOfSize(k), f \in Forests(n - k)} : k \in 1..n}

\* the values of n nodes: a scalar, or a container of n - 1 nodes below it
ValuesOfSize(n) ==
    (IF n = 1 THEN ScalarValues ELSE {})
    \cup {VList(f) : f \in Forests(n - 1)}
    \cup UNION {{VDict([i \in 1..Len(f) |-> [k |-> ks[i], v |-> f[i]]]) :
                    ks \in KeySeqs(Len(f))} : f \in Forests(n - 1)}

\* the documents drawn: an object or array root with at most MaxSize nodes below
RootValues ==
    UNION {{v \in ValuesOfSize(n) : IsContainer(v)} : n \in 1..(MaxSize + 1)}

InitRoundTrip ==
    /\ items = [m \in ModelIds |-> EmptyTree]
    /\ document = [data |-> VNull, file_path |-> NoPath]
    /\ view = [m \in ModelIds |-> InitView]
    /\ locked = FALSE
    /\ history = NoHistory
    /\ input \in RootValues
    /\ steps = 1
    /\ last = NoOp
    /\ log = <<>>
    /\ pool = <<>>
    /\ queue = <<>>

\* model.load(input) on the editor's model
Load ==
    /\ Commit(ModelLoad(World, "editor", input), [op |-> "load"])
    /\ UNCHANGED <<history, input>>

NextRoundTrip == Load

SpecRoundTrip == InitRoundTrip /\ [][NextRoundTrip]_vars

----------------------------------------------------------------------------
(* View interaction, snapshots, undo and redo *)

RECURSIVE Visible(_, _, _)
\* a row the user can reach: every item above it, below the root, is expanded
Visible(heap, v, item) ==
    LET parent == heap[item].parent
    IN  parent = RootItem \/ (parent \in v.expanded /\ Visible(heap, v, parent))

\* the user expands a row of a tab's tree view
ViewExpand(tab, item) ==
    /\ item \in Nodes(tab)
    /\ ChildCount(items[tab], item) > 0
    /\ item \notin view[tab].expanded
    /\ Visible(items[tab], view[tab], item)
    /\ Commit([World EXCEPT !.view[tab] = Expand(@, item)],
              [op |-> "expand", m |-> tab, item |-> item])
    /\ UNCHANGED <<history, input>>

\* the user clicks a row: it becomes the current index
ViewSetCurrent(tab, item) ==
    /\ item \in Nodes(tab)
    /\ item # view[tab].current
    /\ Visible(items[tab], view[tab], item)
    /\ Commit([World EXCEPT !.view[tab] = SetCurrentIndex(@, item)],
              [op |-> "setCurrent", m |-> tab, item |-> item])
    /\ UNCHANGED <<history, input>>

\* the user moves the vertical scroll bar
ViewScroll(tab, value) ==
    /\ value # view[tab].scroll
    /\ Commit([World EXCEPT !.view[tab].scroll = value],
              [op |-> "scroll", m |-> tab, value |-> value])
    /\ UNCHANGED <<history, input>>

\* MainWindow._action_save_progress; each snapshot gets a later file name
SaveProgress ==
    /\ Len(history.workspace) < MaxSnapshots
    /\ CommitHistory(SaveSnapshot(World, history, CollectCurrentJson(World), TRUE),
                     [op |-> "save"])
    /\ UNCHANGED input

\* MainWindow._load_history_at(idx): world and history after it
LoadHistoryAt(w, h, idx) ==
    IF idx < 0 \/ idx >= Len(h.files) THEN [w |-> w, h |-> h]
    ELSE [w |-> DocumentSetData(ScheduleRestore(w, h.files[idx + 1].meta),
                                h.files[idx + 1].data),
          h |-> RefreshHistoryButtons([h EXCEPT !.index = idx])]

\* _action_undo with _history_index already set: one snapshot back, if there is one
UndoFrom(w, h) ==
    IF h.index - 1 >= 0 THEN LoadHistoryAt(w, h, h.index - 1) ELSE [w |-> w, h |-> h]

\* MainWindow._action_undo
ActionUndo ==
    /\ CommitHistory(
            IF history.index # -1 THEN UndoFrom(World, history)
            ELSE IF RebuildHistoryList(history).files = <<>>
                 THEN [w |-> World, h |-> RebuildHistoryList(history)]
            ELSE UndoFrom(World, AtLast(RebuildHistoryList(history))),
            [op |-> "undo"])
    /\ UNCHANGED input

\* _action_redo with _history_index already set: one snapshot forward, if there is one
RedoFrom(w, h) ==
    IF h.index + 1 < Len(h.files) THEN LoadHistoryAt(w, h, h.index + 1)
    ELSE [w |-> w, h |-> h]

\* MainWindow._action_redo
ActionRedo ==
    /\ CommitHistory(
            IF history.index # -1 THEN RedoFrom(World, history)
            ELSE IF RebuildHistoryList(history).files = <<>>
                 THEN [w |-> World, h |-> RebuildHistoryList(history)]
            ELSE RedoFrom(World, [RebuildHistoryList(history) EXCEPT !.index = 0]),
            [op |-> "redo"])
    /\ UNCHANGED input

InitHistory ==
    /\ items = [m \in ModelIds |-> EmptyTree]
    /\ document = [data |-> VNull, file_path |-> NoPath]
    /\ view = [m \in ModelIds |-> InitView]
    /\ locked = FALSE
    /\ history = NoHistory
    /\ input = VNull
    /\ steps = MaxHistorySteps
    /\ last = NoOp
    /\ log = <<>>
    /\ pool = <<>>
    /\ queue = <<>>

NextHistory ==
    \/ \E tab \in ViewStateTabs : \E item \in Nodes(tab) : ViewExpand(tab, item)
    \/ \E tab \in ViewStateTabs : \E item \in Nodes(tab) : ViewSetCurrent(tab, item)
    \/ \E tab \in ViewStateTabs, value \in 0..MaxScroll : ViewScroll(tab, value)
    \/ \E item \in Nodes("editor"), value \in HistoryValueTexts :
            SetData("editor", item, 1, value, "EditRole")
    \/ \E item \in Nodes("editor"), value \in HistoryKeyTexts :
            SetData("editor", item, 0, value, "EditRole")
    \/ \E p \in HistoryPaths : OpenFile(p, FALSE)
    \/ SaveProgress
    \/ ActionUndo
    \/ ActionRedo

SpecHistory == InitHistory /\ [][NextHistory]_vars

----------------------------------------------------------------------------
(* Properties.  last is the operation that led to the state, last.pre the    *)
(* state before it, log the signals and calls it made, in order.            *)

\* the editor's tree before the last operation
PreHeap == last.pre.items["editor"]

\* the last operation was model.setData(index, value, EditRole) on the
\* editor's model, index being in the given column
IsEdit(column) ==
    /\ last.op = "setData"
    /\ last.m = "editor"
    /\ last.column = column
    /\ last.role = "EditRole"

\* the positions in the log of the signal ev of model m
Events(ev, m) == {i \in 1..Len(log) : log[i].ev = ev /\ log[i].m = m}

\* the model m emitted exactly one modelAboutToBeReset / modelReset pair
OneResetPair(m) ==
    /\ Cardinality(Events("modelAboutToBeReset", m)) = 1
    /\ Cardinality(Events("modelReset", m)) = 1
    /\ \A i \in Events("modelAboutToBeReset", m) :
         \A j \in Events("modelReset", m) : i < j

\* the model m emitted no reset signal and no dataChanged
NoSignal(m) ==
    \A i \in 1..Len(log) :
        log[i].m = m => log[i].ev \notin {"modelAboutToBeReset", "modelReset", "dataChanged"}

\* the operation left both trees, the document and the export as they were
NothingChanged ==
    /\ items = last.pre.items
    /\ document = last.pre.document
    /\ ToJson(items["editor"], RootItem) = ToJson(PreHeap, RootItem)

\* the child count at every path of a tree
ChildCounts(heap) ==
    {<<ItemPath(heap, n), ChildCount(heap, n)>> : n \in 1..Len(heap)}

\* the number of members or elements of a container
Size(c) == IF c.t = "dict" THEN Len(c.m) ELSE Len(c.e)

\* the nodes of a tree that the path leads to, key by key from the root
Resolve(heap, path) == {n \in 2..Len(heap) : ItemPath(heap, n) = path}

\* C1: load(v) followed by to_json() returns a value structurally equal to
\* v, for every object or array root v: same member keys and values, same
\* array length and order, same scalar values and kinds
RoundTrip ==
    last.op = "load" =>
        /\ last.ret = "True"
        /\ StructEq(ToJson(items["editor"], RootItem), input)

\* an object whose members were inserted out of key order, one of them a
\* container, was loaded and exported
RoundTripWitness ==
    /\ last.op = "load"
    /\ input.t = "dict"
    /\ Len(input.m) = 2
    /\ StrLess(input.m[2].k, input.m[1].k)
    /\ IsContainer(input.m[1].v)
    /\ input.m[2].v = VBool(TRUE)
    /\ StructEq(ToJson(items["editor"], RootItem), input)

\* the last operation edited the value of a scalar node with a text that
\* parses to a scalar
InPlaceEdit ==
    /\ IsEdit(1)
    /\ PreHeap[last.item].value_type \notin {"dict", "list"}
    /\ ~IsContainer(ParseUserInput(last.value))

\* C2: a value edit of a scalar node with a scalar input changes no child
\* count, emits neither modelAboutToBeReset nor modelReset, and changes the
\* export only at the node's path
InPlaceEditIsolated ==
    InPlaceEdit =>
        /\ ChildCounts(items["editor"]) = ChildCounts(PreHeap)
        /\ Events("modelAboutToBeReset", "editor") = {}
        /\ Events("modelReset", "editor") = {}
        /\ StructEq(ToJson(items["editor"], RootItem),
                    SetByPath(ToJson(PreHeap, RootItem), ItemPath(PreHeap, last.item),
                              ParseUserInput(last.value)))

\* the last operation edited the value of a scalar node with a text that
\* parses to an object or array
ScalarToContainerEdit ==
    /\ IsEdit(1)
    /\ PreHeap[last.item].value_type \notin {"dict", "list"}
    /\ IsContainer(ParseUserInput(last.value))

\* C3: a value edit of the scalar node at path p with an input that parses
\* to a container c returns True, emits exactly one reset pair, leaves at
\* p a node of c's kind with as many children as c has members, and the
\* export is the previous one with the value at p replaced by c
ScalarToContainerReloads ==
    ScalarToContainerEdit =>
        LET p == ItemPath(PreHeap, last.item)
            c == ParseUserInput(last.value)
        IN  /\ last.ret = "True"
            /\ OneResetPair("editor")
            /\ \E n \in Resolve(items["editor"], p) :
                 /\ items["editor"][n].value_type = c.t
                 /\ ChildCount(items["editor"], n) = Size(c)
            /\ StructEq(ToJson(items["editor"], RootItem),
                        SetByPath(ToJson(PreHeap, RootItem), p, c))

\* the scalar two levels down an array was given the text [1,2,3]
ScalarToContainerWitness ==
    /\ ScalarToContainerEdit
    /\ last.value = << "[", "1", ",", "2", ",", "3", "]" >>
    /\ Len(ItemPath(PreHeap, last.item)) = 3
    /\ last.ret = "True"
    /\ \E n \in Resolve(items["editor"], ItemPath(PreHeap, last.item)) :
         ChildCount(items["editor"], n) = 3

\* the parent of the edited node, before the edit
PreParent == PreHeap[last.item].parent

\* the last operation edited the key of a member of an Object node, and
\* no other member of that object has the new key
RenameEdit ==
    /\ IsEdit(0)
    /\ PreHeap[PreParent].value_type = "dict"
    /\ \A sib \in 2..Len(PreHeap) :
         (sib # last.item /\ PreHeap[sib].parent = PreParent)
            => PreHeap[sib].key # KStr(last.value)

\* the document with the value at path replaced (the document itself for
\* the empty path)
ReplaceAt(data, path, value) ==
    IF path = <<>> THEN value ELSE SetByPath(data, path, value)

\* C4: renaming a member of an Object node from k to a key k' no other
\* sibling has returns True, emits exactly one reset pair, and the export
\* is the previous one except that in that object k' is bound to the
\* value k had and k (when it is not k') is absent
RenameUpdatesExport ==
    RenameEdit =>
        LET p == ItemPath(PreHeap, last.item)
            pp == SubSeq(p, 1, Len(p) - 1)
            k == p[Len(p)].str
            before == ToJson(PreHeap, RootItem)
            after == ToJson(items["editor"], RootItem)
            object == GetByPath(before, pp)
            renamed == DictSet(DictPop(object, k), last.value, DictGet(object, k))
        IN  /\ last.ret = "True"
            /\ OneResetPair("editor")
            /\ k # last.value => ~DictHas(GetByPath(after, pp), k)
            /\ DictHas(GetByPath(after, pp), last.value)
            /\ StructEq(after, ReplaceAt(before, pp, renamed))

\* the member b of the object inside an array was renamed to z
RenameWitness ==
    /\ RenameEdit
    /\ last.value = << "z" >>
    /\ ItemPath(PreHeap, last.item) = << KStr(<< "a" >>), KInt(1), KStr(<< "b" >>) >>
    /\ last.ret = "True"
    /\ Resolve(items["editor"], << KStr(<< "a" >>), KInt(1), KStr(<< "z" >>) >>) # {}
    /\ Resolve(items["editor"], << KStr(<< "a" >>), KInt(1), KStr(<< "b" >>) >>) = {}

\* the last operation edited the key of a member of an Object node to the
\* key of another member of that object
CollidingRename ==
    /\ IsEdit(0)
    /\ PreHeap[PreParent].value_type = "dict"
    /\ \E sib \in 2..Len(PreHeap) :
         /\ sib # last.item
         /\ PreHeap[sib].parent = PreParent
         /\ PreHeap[sib].key = KStr(last.value)

\* C5: a key edit whose new key is the key of another sibling under the
\* same Object parent returns False, emits no reset and no dataChanged,
\* and leaves every key and the export unchanged
CollisionRejected ==
    CollidingRename =>
        /\ last.ret = "False"
        /\ NoSignal("editor")
        /\ NothingChanged

\* the member c of the root object was to be renamed to a, which exists
CollisionWitness ==
    /\ CollidingRename
    /\ ItemPath(PreHeap, last.item) = << KStr(<< "c" >>) >>
    /\ last.value = << "a" >>
    /\ last.ret = "False"

\* the last operation edited the key of a node whose parent is not an Object
NonObjectParentRename ==
    /\ IsEdit(0)
    /\ PreHeap[PreParent].value_type # "dict"

\* C6: a key edit of a node whose parent is an Array (or not an Object)
\* returns False for every new key, with tree and export unchanged and no
\* signal emitted
ArrayChildRenameRejected ==
    NonObjectParentRename =>
        /\ last.ret = "False"
        /\ NoSignal("editor")
        /\ NothingChanged

\* the key of the second element of an array below the root was edited
ArrayChildRenameWitness ==
    /\ NonObjectParentRename
    /\ ItemPath(PreHeap, last.item) = << KStr(<< "a" >>), KInt(1) >>
    /\ PreHeap[PreParent].value_type = "list"
    /\ last.ret = "False"

\* the last operation edited the value of an Object or Array node
ContainerValueEdit ==
    /\ IsEdit(1)
    /\ PreHeap[last.item].value_type \in {"dict", "list"}

\* C7: a value edit of a node of kind Object or Array returns False for
\* every input, mutates nothing (tree, kinds and export as before) and
\* emits neither dataChanged nor reset signals
ContainerValueEditRejected ==
    ContainerValueEdit =>
        /\ last.ret = "False"
        /\ NoSignal("editor")
        /\ NothingChanged

\* the array a of the root object was given the text 5
ContainerValueEditWitness ==
    /\ ContainerValueEdit
    /\ ItemPath(PreHeap, last.item) = << KStr(<< "a" >>) >>
    /\ last.value = << "5" >>
    /\ last.ret = "False"

\* the reset signals of model m in the log, in order
ResetSignals(m) ==
    SelectSeq(log, LAMBDA e : e.m = m /\ e.ev \in {"modelAboutToBeReset", "modelReset"})

\* C8: for each model, modelAboutToBeReset and modelReset strictly
\* alternate, starting with modelAboutToBeReset; the tree is replaced only
\* between the two signals of a pair (the slots of the first see the old
\* tree, those of the second the new one) and no load or setData of the
\* same model begins between them
ResetsAlternate ==
    \A m \in ModelIds :
        /\ Len(ResetSignals(m)) % 2 = 0
        /\ \A n \in 1..Len(ResetSignals(m)) :
             ResetSignals(m)[n].ev =
                IF n % 2 = 1 THEN "modelAboutToBeReset" ELSE "modelReset"
        /\ \A i \in Events("modelAboutToBeReset", m) :
             /\ i > 1
             /\ log[i - 1].ev = "load"
             /\ log[i - 1].m = m
             /\ log[i].tree = log[i - 1].tree
             /\ i < Len(log)
             /\ log[i + 1].ev = "modelReset"
             /\ log[i + 1].m = m
             /\ log[i + 1].tree = JsonModelTree(log[i - 1].arg)
        /\ \A j \in Events("modelReset", m) :
             /\ j > 1
             /\ log[j - 1].ev = "modelAboutToBeReset"
             /\ log[j - 1].m = m
        /\ \A i \in Events("load", m) :
             \/ i = Len(log)
             \/ log[i + 1].ev = "AssertionError" /\ log[i + 1].m = m
             \/ log[i + 1].ev = "modelAboutToBeReset" /\ log[i + 1].m = m

\* an edit in place (the editor's tree is no longer what it was before the
\* edit) reached, through dataChanged and the document, a load of both
\* models, and the viewer's model was given a tree unlike its old one
ResetsAlternateWitness ==
    /\ last.op = "setData"
    /\ Events("dataChanged", "editor") # {}
    /\ Len(ResetSignals("viewer")) = 2
    /\ Len(ResetSignals("editor")) = 2
    /\ ResetSignals("viewer")[1].tree # ResetSignals("viewer")[2].tree
    /\ ResetSignals("editor")[1].tree # PreHeap
    /\ ResetSignals("editor")[2].tree = items["editor"]

\* the tree model m holds at the first later point the log notes it, or
\* at the end of the operation
TreeAfter(i, m) ==
    LET later == {j \in (i + 1)..Len(log) : log[j].m = m /\ log[j].ev = "load"}
    IN  IF later = {} THEN items[m]
        ELSE log[CHOOSE j \in later : \A q \in later : j <= q].tree

\* C9: load of a bare scalar root fails the call, emits neither
\* modelAboutToBeReset nor modelReset, and leaves the tree and its export
\* as they were
ScalarLoadFails ==
    \A m \in ModelIds :
        \A i \in Events("load", m) :
            ~IsContainer(log[i].arg) =>
                /\ i < Len(log)
                /\ log[i + 1].ev = "AssertionError"
                /\ log[i + 1].m = m
                /\ TreeAfter(i, m) = log[i].tree
                /\ ToJson(TreeAfter(i, m), RootItem) = ToJson(log[i].tree, RootItem)
                /\ \A n \in Events("modelAboutToBeReset", m) \cup Events("modelReset", m) :
                     n < i \/ \E j \in Events("load", m) : i < j /\ j < n

\* a file holding 5 was opened while the editor showed a document: the
\* tree and the export stayed
ScalarLoadFailsWitness ==
    /\ last.op = "open"
    /\ last.path = "f4"
    /\ \E i \in Events("load", "editor") : log[i].arg = VInt(5)
    /\ Events("modelAboutToBeReset", "editor") = {}
    /\ Len(items["editor"]) > 1
    /\ items["editor"] = PreHeap
    /\ document.data = VInt(5)
    /\ ToJson(items["editor"], RootItem) # VInt(5)

\* the view a tab shows after a reset is the one it showed before, carried
\* over by path: old and new are what the log noted at modelAboutToBeReset
\* and after the tab's slot of modelReset
CarriedOver(old, new) ==
    LET current == Resolve(new.tree, ItemPath(old.tree, old.view.current))
    IN  /\ new.view.expanded =
                UNION {Resolve(new.tree, ItemPath(old.tree, e)) : e \in old.view.expanded}
        /\ new.view.current =
                IF old.view.current = 0 \/ current = {} THEN 0
                ELSE CHOOSE n \in current : TRUE
        /\ new.view.scroll = old.view.scroll

----------------------------------------------------------------------------
(* Invariants of the tree, in every tree the last operation has shown:      *)
(* the trees the models hold and the trees the log noted on the way         *)

\* the log entries that carry the tree of their model
TreeEvents == {"load", "modelAboutToBeReset", "modelReset", "restored", "dataChanged"}

\* every tree a model holds, or held at a point the log notes
ReachedTrees ==
    {items[m] : m \in ModelIds}
        \cup {log[i].tree : i \in {j \in 1..Len(log) : log[j].ev \in TreeEvents}}

\* C11: in every reachable tree (after load, clear, edits in place,
\* scalar-to-container edits and renames) a node whose kind is not Object
\* or Array has no children; an edit in place leaves no node with children
\* tagged with a scalar kind
ScalarsAreLeaves ==
    \A heap \in ReachedTrees :
        \A n \in 1..Len(heap) :
            heap[n].value_type \notin {"dict", "list"} => heap[n].children = <<>>

\* an edit in place has turned a number into null in a tree that also has
\* an object and an array with children
ScalarsAreLeavesWitness ==
    /\ InPlaceEdit
    /\ last.ret = "True"
    /\ PreHeap[last.item].value_type = "int"
    /\ \E i \in Events("dataChanged", "editor") :
         /\ log[i].tree[last.item].value_type = "NoneType"
         /\ log[i].tree[last.item].children = <<>>
         /\ \E n \in 1..Len(log[i].tree) :
              log[i].tree[n].value_type = "dict" /\ log[i].tree[n].children # <<>>
         /\ \E n \in 1..Len(log[i].tree) :
              log[i].tree[n].value_type = "list" /\ log[i].tree[n].children # <<>>

\* C12: in every reachable tree the children of an Array node have the
\* keys 0, 1, ..., childCount - 1 in child order, and the children of an
\* Object node have pairwise distinct (string) keys
KeysWellFormed ==
    \A heap \in ReachedTrees :
        \A n \in 1..Len(heap) :
            LET chs == heap[n].children
            IN  /\ heap[n].value_type = "list" =>
                    \A i \in 1..Len(chs) : heap[chs[i]].key = KInt(i - 1)
                /\ heap[n].value_type = "dict" =>
                    /\ \A i \in 1..Len(chs) : "str" \in DOMAIN heap[chs[i]].key
                    /\ \A i, j \in 1..Len(chs) :
                         i # j => heap[chs[i]].key # heap[chs[j]].key

\* a scalar below an array became the array [1,2,3]: the reloaded tree has
\* an array of three children and an object of two members
KeysWellFormedWitness ==
    /\ ScalarToContainerEdit
    /\ last.ret = "True"
    /\ \E n \in 1..Len(items["editor"]) :
         /\ items["editor"][n].value_type = "list"
         /\ ChildCount(items["editor"], n) = 3
    /\ \E n \in 1..Len(items["editor"]) :
         /\ items["editor"][n].value_type = "dict"
         /\ ChildCount(items["editor"], n) = 2

----------------------------------------------------------------------------
(* Order of the members of an object *)

RECURSIVE FollowsValue(_, _, _)
\* the children below node n are those of the value v, one per member or
\* element, in the order v holds them, at every depth
FollowsValue(heap, n, v) ==
    LET chs == heap[n].children
    IN  CASE v.t = "dict" ->
                /\ Len(chs) = Len(v.m)
                /\ \A i \in 1..Len(chs) :
                     /\ heap[chs[i]].key = KStr(v.m[i].k)
                     /\ FollowsValue(heap, chs[i], v.m[i].v)
          [] v.t = "list" ->
                /\ Len(chs) = Len(v.e)
                /\ \A i \in 1..Len(chs) :
                     /\ heap[chs[i]].key = KInt(i - 1)
                     /\ FollowsValue(heap, chs[i], v.e[i])
          [] OTHER -> chs = <<>>

\* C13: JsonModel.load, no sort-keys option being configured, creates the
\* children of every Object node, at every depth, in the insertion order of
\* the members of the loaded value, and to_json() iterates them in that order
LoadKeepsInsertionOrder ==
    last.op = "load" =>
        /\ FollowsValue(items["editor"], RootItem, input)
        /\ ToJson(items["editor"], RootItem) = input

\* the node the path leads to, the root for the empty path
NodeAt(heap, path) ==
    IF path = <<>> THEN RootItem ELSE CHOOSE n \in Resolve(heap, path) : TRUE

\* the keys of the children of a node, in child order
ChildKeys(heap, n) == [i \in 1..ChildCount(heap, n) |-> heap[heap[n].children[i]].key]

\* C14: after a successful rename of a member of an Object node that has
\* two or more members, the renamed member is the last child of that parent
\* in the reloaded tree, and the other siblings keep their relative order
RenamedMemberGoesLast ==
    (RenameEdit /\ last.ret = "True" /\ ChildCount(PreHeap, PreParent) >= 2) =>
        LET p == ItemPath(PreHeap, last.item)
            old == ChildKeys(PreHeap, PreParent)
            new == ChildKeys(items["editor"],
                             NodeAt(items["editor"], SubSeq(p, 1, Len(p) - 1)))
        IN  /\ new[Len(new)] = KStr(last.value)
            /\ SelectSeq(new, LAMBDA k : k # KStr(last.value))
                 = SelectSeq(old, LAMBDA k : k # p[Len(p)])

----------------------------------------------------------------------------
(* The permissive parse of the value column *)

\* the last operation edited the value of a scalar node of the editor's
\* model (whose values are editable)
ScalarValueEdit ==
    /\ IsEdit(1)
    /\ PreHeap[last.item].value_type \notin {"dict", "list"}

\* the value a text stands for: the JSON parse of the trimmed text when it
\* parses, otherwise True / False / None when the trimmed text is true /
\* false / null in any case, otherwise the trimmed text as a string
CascadeValue(text) ==
    LET s == Strip(text)
    IN  IF JsonLoads(s).ok THEN JsonLoads(s).val
        ELSE CASE Lower(s) = << "t", "r", "u", "e" >> -> VBool(TRUE)
               [] Lower(s) = << "f", "a", "l", "s", "e" >> -> VBool(FALSE)
               [] Lower(s) = << "n", "u", "l", "l" >> -> VNull
               [] OTHER -> VStr(s)

----------------------------------------------------------------------------
(* Navigation and rendering *)

\* C19: in every reachable tree, for every node p and every i with
\* 0 <= i < childCount(p), the parent of child(p, i) is p and
\* row(child(p, i)) = i; row(root) = 0; the model index of a top-level
\* node has the invalid index as parent; columnCount is 2 for every parent
NavigationConsistent ==
    \A heap \in ReachedTrees :
        /\ \A p \in 1..Len(heap) :
             \A i \in 0..(ChildCount(heap, p) - 1) :
                /\ heap[Child(heap, p, i)].parent = p
                /\ Row(heap, Child(heap, p, i)) = i
        /\ Row(heap, RootItem) = 0
        /\ \A i \in 0..(RowCount(heap, InvalidIndex) - 1) :
             \A column \in 0..1 :
                LET index == ModelIndex(heap, i, column, InvalidIndex)
                IN  /\ index.valid
                    /\ heap[index.item].parent = RootItem
                    /\ ModelParent(heap, index) = InvalidIndex
        /\ ColumnCount(InvalidIndex) = 2
        /\ \A n \in 2..Len(heap) :
             \A column \in 0..1 : ColumnCount(CreateIndex(Row(heap, n), column, n)) = 2

\* the editor's tree has two top-level nodes and, two levels down, a node
\* in row 2 of its parent, whose model parent is a valid index
NavigationWitness ==
    /\ last.op = "setData"
    /\ RowCount(items["editor"], InvalidIndex) = 2
    /\ \E n \in 2..Len(items["editor"]) :
         /\ Row(items["editor"], n) = 2
         /\ Len(ItemPath(items["editor"], n)) >= 3
         /\ ModelParent(items["editor"], CreateIndex(2, 0, n)).valid
         /\ ModelParent(items["editor"], CreateIndex(2, 0, n)).item
              = items["editor"][n].parent

\* the text contains the piece
Contains(text, piece) ==
    \E i \in 1..(Len(text) - Len(piece) + 1) : SubSeq(text, i, i + Len(piece) - 1) = piece

\* the container nodes of the reached trees, each with its tree
ContainerNodes ==
    {<<heap, n>> \in UNION {{heap} \X (2..Len(heap)) : heap \in ReachedTrees} :
        heap[n].value_type \in {"dict", "list"}}

\* C20: the value-column display text of an Object or Array node is the
\* elision marker ({...} or [...]) together with the node's child count,
\* and is the same for any two nodes of one kind and child count, whatever
\* their children hold; a scalar node renders its value, as a JSON literal
ContainersRenderElided ==
    \A heap \in ReachedTrees :
        \A n \in 2..Len(heap) :
            LET text == DisplayData(heap, n, 1)
            IN  IF heap[n].value_type \in {"dict", "list"}
                THEN /\ StartsWith(text, 1,
                            IF heap[n].value_type = "dict"
                            THEN << "{", ".", ".", ".", "}" >>
                            ELSE << "[", ".", ".", ".", "]" >>)
                     /\ Contains(SubSeq(text, 6, Len(text)), IntStr(ChildCount(heap, n)))
                     /\ \A other \in ContainerNodes :
                          (/\ other[1][other[2]].value_type = heap[n].value_type
                           /\ ChildCount(other[1], other[2]) = ChildCount(heap, n))
                            => DisplayData(other[1], other[2], 1) = text
                ELSE /\ JsonLoads(text).ok
                     /\ JsonLoads(text).val = heap[n].value

\* an array of three elements shows [...] and 3, as does the other array
\* of the tree's export with its one element the text 1
ElisionWitness ==
    /\ ScalarToContainerEdit
    /\ \E n \in 2..Len(items["editor"]) :
         /\ items["editor"][n].value_type = "list"
         /\ ChildCount(items["editor"], n) = 3
         /\ DisplayData(items["editor"], n, 1)
              = << "[", ".", ".", ".", "]", " ", " ", "/", "/", " ", "3",
                   " ", "i", "t", "e", "m" >>
         /\ DisplayData(items["editor"], Child(items["editor"], n, 2), 1) = << "3" >>

----------------------------------------------------------------------------
(* Background loads: JSONDocument.load_async hands a _LoadRunnable to the   *)
(* global QThreadPool.  The runnable's run(), and with it the callbacks     *)
(* _ok / _err, execute in a thread of the pool, one Python statement at a   *)
(* time (the interpreter may switch threads between statements).  A signal  *)
(* emitted there reaches the tabs' slots through the UI thread's event      *)
(* loop.  The read and parse of the file touch nothing shared, so they are  *)
(* taken together with the statement that follows them.                     *)

\* the files loaded in the background: two documents, a bare scalar, no JSON
AsyncPaths == {"f2", "f3", "f4", "f5"}

\* the files opened from the menu in these runs: a document, no JSON
AsyncOpenPaths == {"f3", "f5"}

\* JSONDocument.load_async(path): loadStarted, then the runnable is started
DocumentLoadAsync(w, path) ==
    [Emit(w, [ev |-> "loadStarted", m |-> "document", path |-> path])
        EXCEPT !.pool = Append(@, [path |-> path, pc |-> "run", data |-> VNull,
                                   landed |-> 0])]

\* a call of document.load_async(p) on the UI thread
LoadAsync(p) ==
    /\ Len(pool) < MaxLoads
    /\ Commit(DocumentLoadAsync(World, p),
              [op |-> "load_async", path |-> p, thread |-> "ui"])
    /\ UNCHANGED <<history, input>>

\* the world as a thread of the pool acts on it
WorkerWorld == [World EXCEPT !.thread = "worker"]

\* the runnables whose result has been assigned to the document
Landed(pl) == {r \in 1..Len(pl) : pl[r].landed > 0}

\* _ok, first statement: self.data = data (landed numbers the assignments)
OkSetData(w, r, data) ==
    [w EXCEPT !.document.data = data,
              !.pool[r].data = data,
              !.pool[r].landed = Cardinality(Landed(w.pool)) + 1,
              !.pool[r].pc = "path"]

\* an except branch that also resets the document and tells the tabs
RunnableErrorClearing(w, r) ==
    [DocumentDataChanged(
        Emit([w EXCEPT !.document = [data |-> VDict(<<>>), file_path |-> NoPath]],
             [ev |-> "loadFailed", m |-> "document", path |-> w.pool[r].path]),
        VDict(<<>>))
        EXCEPT !.pool[r].pc = "failed"]

\* the except branch of _LoadRunnable.run: _err emits loadFailed (no slot
\* is connected to it)
RunnableError(w, r) ==
    [Emit(w, [ev |-> "loadFailed", m |-> "document", path |-> w.pool[r].path])
        EXCEPT !.pool[r].pc = "failed"]

\* _LoadRunnable.run: open and json.load, then _ok's first statement, or _err
RunnableRun(w, r) ==
    IF JsonLoads(FileTexts[w.pool[r].path]).ok
    THEN OkSetData(w, r, JsonLoads(FileTexts[w.pool[r].path]).val)
    ELSE RunnableError(w, r)

WorkerRun(r) ==
    /\ pool[r].pc = "run"
    /\ Commit(RunnableRun(WorkerWorld, r), [op |-> "run", r |-> r, thread |-> "worker"])
    /\ UNCHANGED <<history, input>>

\* _ok, second statement: self.file_path = p
OkSetPath(w, r) ==
    [w EXCEPT !.document.file_path = w.pool[r].path, !.pool[r].pc = "emit"]

WorkerSetPath(r) ==
    /\ pool[r].pc = "path"
    /\ Commit(OkSetPath(WorkerWorld, r), [op |-> "path", r |-> r, thread |-> "worker"])
    /\ UNCHANGED <<history, input>>

\* an emit of the value this runnable has read, not of the document's data
OkEmitOwnData(w, r) ==
    [Emit(DocumentDataChanged(w, w.pool[r].data),
          [ev |-> "loadFinished", m |-> "document", path |-> w.pool[r].path])
        EXCEPT !.pool[r].pc = "done"]

\* _ok, last statements: self.dataChanged.emit(self.data), loadFinished.emit(p)
\* (an emit is one call: the calls it posts are not interleaved with another
\* thread's)
OkEmit(w, r) ==
    [Emit(DocumentDataChanged(w, w.document.data),
          [ev |-> "loadFinished", m |-> "document", path |-> w.pool[r].path])
        EXCEPT !.pool[r].pc = "done"]

WorkerEmit(r) ==
    /\ pool[r].pc = "emit"
    /\ Commit(OkEmit(WorkerWorld, r), [op |-> "emit", r |-> r, thread |-> "worker"])
    /\ UNCHANGED <<history, input>>

\* the UI thread's event loop delivers the oldest posted call to its slot
ProcessEvent ==
    /\ queue # <<>>
    /\ Commit(OnDocumentChanged([World EXCEPT !.queue = Tail(@)],
                                Head(queue).slot, Head(queue).data),
              [op |-> "event", slot |-> Head(queue).slot, thread |-> "ui"])
    /\ UNCHANGED <<history, input>>

InitAsync ==
    /\ items = [m \in ModelIds |-> EmptyTree]
    /\ document = [data |-> VNull, file_path |-> NoPath]
    /\ view = [m \in ModelIds |-> InitView]
    /\ locked = FALSE
    /\ history = NoHistory
    /\ input = VNull
    /\ steps = MaxAsyncSteps
    /\ last = NoOp
    /\ log = <<>>
    /\ pool = <<>>
    /\ queue = <<>>

\* files are opened from the menu before the background loads are started
NextAsync ==
    \/ \E p \in AsyncOpenPaths : pool = <<>> /\ OpenFile(p, FALSE)
    \/ \E p \in AsyncPaths : LoadAsync(p)
    \/ \E r \in 1..Len(pool) : WorkerRun(r)
    \/ \E r \in 1..Len(pool) : WorkerSetPath(r)
    \/ \E r \in 1..Len(pool) : WorkerEmit(r)
    \/ ProcessEvent

SpecAsync == InitAsync /\ [][NextAsync]_vars

----------------------------------------------------------------------------
(* Properties of the background loads *)

\* the steps a thread of the pool makes
WorkerOps == {"run", "path", "emit"}

\* C16: the result of a background load is handed to the UI thread before
\* any tree is touched: every JsonModel.load and setData runs on the UI
\* thread, a step of a pool thread leaves every tree as it was, and the
\* emit in the pool thread only posts the slots' calls to the UI thread
LoadsOnUiThread ==
    /\ \A i \in 1..Len(log) :
         log[i].ev \in {"load", "setData"} => log[i].thread = "ui"
    /\ last.op \in WorkerOps =>
         /\ items = last.pre.items
         /\ view = last.pre.view
    /\ last.op = "emit" =>
         queue = last.pre.queue
                    \o << [slot |-> "viewer", data |-> document.data],
                          [slot |-> "editor", data |-> document.data],
                          [slot |-> "table", data |-> document.data] >>

\* a call posted by a finished background load was delivered on the UI
\* thread and replaced the editor's tree there
LoadsOnUiThreadWitness ==
    /\ last.op = "event"
    /\ last.slot = "editor"
    /\ \E r \in 1..Len(pool) : pool[r].pc = "done" /\ pool[r].data = document.data
    /\ \E i \in Events("load", "editor") : log[i].thread = "ui"
    /\ items["editor"] # PreHeap
    /\ items["editor"] = JsonModelTree(document.data)

\* two or more background loads were started, each has run to its end and
\* every posted call has been delivered
AllSettled ==
    /\ Len(pool) >= 2
    /\ \A r \in 1..Len(pool) : pool[r].pc \in {"done", "failed"}
    /\ queue = <<>>

\* the runnable whose result was assigned to the document last
LastLanded ==
    CHOOSE r \in Landed(pool) : \A q \in Landed(pool) : pool[q].landed <= pool[r].landed

\* a call of load_async leaves the runnables already in flight as they are
NotCancelled ==
    last.op = "load_async" =>
        /\ Len(pool) = Len(last.pre.pool) + 1
        /\ \A r \in 1..Len(last.pre.pool) : pool[r] = last.pre.pool[r]

FailedLoad ==
    \/ last.op = "open" /\ ~JsonLoads(FileTexts[last.path]).ok
    \/ last.op = "run" /\ Events("loadFailed", "document") # {}

\* C18: a document load that fails with an I/O or parse error leaves the
\* document's data and file_path as they were, emits no dataChanged and
\* reloads no subscribed model
FailedLoadChangesNothing ==
    FailedLoad =>
        /\ document = last.pre.document
        /\ items = last.pre.items
        /\ queue = last.pre.queue
        /\ Events("document.dataChanged", "document") = {}
        /\ \A m \in ModelIds : Events("load", m) = {}

\* a background load of a file that is no JSON ended in loadFailed while
\* the document and both models held an earlier file
FailedLoadWitness ==
    /\ last.op = "run"
    /\ Events("loadFailed", "document") # {}
    /\ pool[last.r].pc = "failed"
    /\ IsContainer(document.data)
    /\ document.file_path # NoPath
    /\ \A m \in ModelIds : items[m] = JsonModelTree(document.data)
    /\ Len(items["editor"]) > 1

----------------------------------------------------------------------------
(* The models that are not editable: setData from any caller *)

\* the texts and roles handed to setData of a model that is not editable
ReadOnlyTexts == { << "5" >>, << "z" >> }
Roles == {"EditRole", "DisplayRole"}

\* the models the tabs construct with editable_keys=False, editable_values=False
ReadOnlyModels == {"viewer", "table"}

\* model.setData(index, value, role) on the Viewer's or the Table's model,
\* with any index of the model or the invalid index
SetDataReadOnly(m, item, column, value, role) ==
    /\ item \in Nodes(m) \cup {0}
    /\ Commit(JsonModelSetData(World, m, item, column, value, role),
              [op |-> "setData", m |-> m, item |-> item, column |-> column,
               value |-> value, role |-> role])
    /\ UNCHANGED <<history, input>>

NextReadOnly ==
    \/ \E p \in Paths : OpenFile(p, FALSE)
    \/ CloseFile
    \/ \E item \in Nodes("editor"), value \in HistoryValueTexts :
            SetData("editor", item, 1, value, "EditRole")
    \/ \E m \in ReadOnlyModels, item \in 0..(MaxNodes + 1), column \in {0, 1},
          value \in ReadOnlyTexts, role \in Roles :
            SetDataReadOnly(m, item, column, value, role)

SpecReadOnly == Init /\ [][NextReadOnly]_vars

\* the last operation was a setData call on a model constructed with
\* editable_keys=False and editable_values=False
ReadOnlySetData == last.op = "setData" /\ last.m \in ReadOnlyModels

\* C21: on a model constructed with editable_keys=False and
\* editable_values=False every setData call, whatever its index, column,
\* role and input, returns False, leaves every tree, the export of the
\* model, the document and the views as they were and emits no signal; the
\* tree of such a model changes only in an operation that loads the model
ReadOnlyModelFrozen ==
    /\ ReadOnlySetData =>
         /\ last.ret = "False"
         /\ items = last.pre.items
         /\ ToJson(items[last.m], RootItem) = ToJson(last.pre.items[last.m], RootItem)
         /\ document = last.pre.document
         /\ view = last.pre.view
         /\ \A i \in 1..Len(log) : log[i].ev = "setData"
    /\ last.op # "init" =>
         \A m \in ReadOnlyModels :
            items[m] # last.pre.items[m] => Events("load", m) # {}

\* setData with EditRole on the value column of a scalar row of the
\* Viewer's loaded model was refused
ReadOnlyWitness ==
    /\ ReadOnlySetData
    /\ last.m = "viewer"
    /\ last.role = "EditRole"
    /\ last.column = 1
    /\ last.item \in Nodes("viewer")
    /\ items["viewer"][last.item].value_type \notin {"dict", "list"}
    /\ last.ret = "False"

----------------------------------------------------------------------------
(* MainWindow: Save, Save As and the snapshot history *)

\* operations explored in one run of the main window's file actions
MaxWindowSteps == 5

\* JSONDocument.save(path): the data is written to path, or to file_path
\* when no path is given; ValueError when there is neither
DocumentSave(w, path) ==
    IF path = NoPath /\ w.document.file_path = NoPath
    THEN [Emit(w, [ev |-> "ValueError", m |-> "document"]) EXCEPT !.ret = "raised"]
    ELSE Emit(w, [ev |-> "write", m |-> "document",
                  path |-> IF path # NoPath THEN path ELSE w.document.file_path,
                  data |-> w.document.data])

\* the try block of _action_save_file_as for the chosen path (a path stands
\* for its stem): the file is written, then document.set_data(data), the
\* document's file_path and the snapshot prefix are set
SaveAsWrite(w, h, data, new_path) ==
    [w |-> [DocumentSetData(
                Emit(w, [ev |-> "write", m |-> "window", path |-> new_path, data |-> data]),
                data)
              EXCEPT !.document.file_path = new_path],
     h |-> [h EXCEPT !.prefix = new_path]]

\* MainWindow._action_save_file_as; new_path is the dialog's answer, NoPath
\* when the user cancels
SaveFileAs(w, h, new_path) ==
    IF CollectCurrentJson(w) = VNull \/ new_path = NoPath THEN [w |-> w, h |-> h]
    ELSE SaveAsWrite(w, h, CollectCurrentJson(w), new_path)

\* MainWindow._action_save_file_overwrite: without a file path it falls back
\* to Save As; otherwise document.set_data(data), then document.save(), whose
\* exception ends in the handler's error dialog
SaveFileOverwrite(w, h, new_path) ==
    IF CollectCurrentJson(w) = VNull THEN [w |-> w, h |-> h]
    ELSE IF w.document.file_path = NoPath THEN SaveFileAs(w, h, new_path)
    ELSE [w |-> DocumentSave(DocumentSetData(w, CollectCurrentJson(w)), NoPath), h |-> h]

\* the file opened and the answers of the Save As dialog in these runs
WindowPaths == {"f2"}
SaveAsPaths == {NoPath, "f2", "g"}

\* the Save action of the File menu
ActionSaveFileOverwrite(new_path) ==
    /\ CommitHistory(SaveFileOverwrite(World, history, new_path),
                     [op |-> "save_file", new_path |-> new_path])
    /\ UNCHANGED input

\* the Save As action of the File menu
ActionSaveFileAs(new_path) ==
    /\ CommitHistory(SaveFileAs(World, history, new_path),
                     [op |-> "save_file_as", new_path |-> new_path])
    /\ UNCHANGED input

InitWindow ==
    /\ items = [m \in ModelIds |-> EmptyTree]
    /\ document = [data |-> VNull, file_path |-> NoPath]
    /\ view = [m \in ModelIds |-> InitView]
    /\ locked = FALSE
    /\ history = NoHistory
    /\ input = VNull
    /\ steps = MaxWindowSteps
    /\ last = NoOp
    /\ log = <<>>
    /\ pool = <<>>
    /\ queue = <<>>

NextWindow ==
    \/ \E p \in WindowPaths, store \in BOOLEAN : OpenFile(p, store)
    \/ CloseFile
    \/ \E new_path \in SaveAsPaths : ActionSaveFileOverwrite(new_path)
    \/ \E new_path \in SaveAsPaths : ActionSaveFileAs(new_path)
    \/ SaveProgress
    \/ ActionUndo
    \/ ActionRedo
    \/ \E item \in Nodes("editor"), value \in HistoryValueTexts :
            SetData("editor", item, 1, value, "EditRole")

SpecWindow == InitWindow /\ [][NextWindow]_vars

\* the files written by the last operation, outside the workspace
Written == {i \in 1..Len(log) : log[i].ev = "write"}

\* C22: when the document has a file path, the Save action writes the
\* editor's export to that path, and afterwards the document's file_path is
\* still that path and its data is what was written
SaveOverwritesOriginal ==
    (last.op = "save_file" /\ last.pre.document.file_path # NoPath) =>
        /\ \E i \in Written :
             /\ log[i].path = last.pre.document.file_path
             /\ log[i].data = ToJson(last.pre.items["editor"], RootItem)
             /\ document.data = log[i].data
        /\ document.file_path = last.pre.document.file_path

\* C23: a view state scheduled by _load_history_at is applied while the
\* tabs handle the dataChanged of that snapshot: after an undo or redo
\* neither EditorTab nor ViewerTab holds a pending restore state, and no
\* reset of another operation finds one
PendingStateConsumed ==
    /\ last.op \in {"undo", "redo"} =>
         \A tab \in ViewStateTabs : view[tab].pending_restore_state.isNone
    /\ last.op \notin {"undo", "redo"} =>
         \A tab \in ViewStateTabs :
            \A i \in Events("modelAboutToBeReset", tab) :
                log[i].view.pending_restore_state.isNone

\* C24: after every successful edit through the editor's model (in-place
\* scalar edit, scalar to container edit or key rename), once the
\* notifications are handled, JSONDocument.get_data() is structurally equal
\* to the editor model's to_json()
DocumentFollowsEditor ==
    ((IsEdit(0) \/ IsEdit(1)) /\ last.ret = "True") =>
        StructEq(document.data, ToJson(items["editor"], RootItem))

\* how often the signal or call ev of m occurs in the log
Count(ev, m) == Cardinality(Events(ev, m))

\* C25: the notifications started by one in-place scalar edit in the
\* editor end after finitely many steps: the model's dataChanged is emitted
\* once, document.set_data runs once and emits the document's dataChanged
\* once, after which every subscribed model (Viewer, Editor, Table) is
\* loaded at most once and no handler sets the document's data again
CascadeTerminates ==
    (InPlaceEdit /\ last.ret = "True") =>
        /\ Count("setData", "editor") = 1
        /\ Count("dataChanged", "editor") = 1
        /\ Count("document.dataChanged", "document") = 1
        /\ \A m \in ModelIds :
             /\ Count("load", m) <= 1
             /\ \A i \in Events("load", m), j \in Events("document.dataChanged", "document"),
                  k \in Events("dataChanged", "editor") : k < j /\ j < i
             /\ Count("dataChanged", m) = IF m = "editor" THEN 1 ELSE 0

\* a scalar of a loaded document was edited in place and the Viewer, the
\* Editor and the Table each reloaded once, in that order
CascadeWitness ==
    /\ InPlaceEdit
    /\ last.ret = "True"
    /\ \A m \in ModelIds : Count("load", m) = 1 /\ OneResetPair(m)
    /\ \A i \in Events("load", "viewer"), j \in Events("load", "editor"),
         k \in Events("load", "table") : i < j /\ j < k
    /\ \A m \in ModelIds : items[m] = JsonModelTree(document.data)

\* C26: after any sequence of Open, Close, Save As, Save Progress, Undo and
\* Redo the pointer is consistent with the list: _history_index is -1, or
\* 0 <= _history_index < len(_history_files) and the file it points at is
\* the snapshot last saved or loaded
HistoryPointerConsistent ==
    \/ history.index = -1
    \/ /\ 0 <= history.index
       /\ history.index < Len(history.files)
       /\ last.op = "save" =>
            history.files[history.index + 1] = history.workspace[Len(history.workspace)]
       /\ (last.op \in {"undo", "redo"} /\ Count("document.dataChanged", "document") > 0) =>
            history.files[history.index + 1].data = document.data

\* the last operation was an Undo that moved the pointer from i to i - 1
UndoMoved ==
    /\ last.op = "undo"
    /\ last.pre.history.index >= 1
    /\ last.pre.history.index < Len(last.pre.history.files)
    /\ history.index = last.pre.history.index - 1

\* C27: with at least two snapshots, an Undo that moves the pointer from i
\* to i - 1 followed at once by a Redo returns the pointer to i and sets
\* the document's data to the content of snapshot i; Undo at index 0 and
\* Redo at the last index leave the pointer and the document's data as
\* they were
UndoRedoRoundTrip ==
    [][/\ (UndoMoved /\ last'.op = "redo") =>
            /\ history'.index = last.pre.history.index
            /\ document'.data =
                 last.pre.history.files[last.pre.history.index + 1].data
       /\ (history.index = 0 /\ last'.op = "undo") =>
            /\ history'.index = history.index
            /\ document'.data = document.data
       /\ (history.index >= 0 /\ history.index = Len(history.files) - 1
             /\ last'.op = "redo") =>
            /\ history'.index = history.index
            /\ document'.data = document.data]_vars

\* the slot calls the last operation posted to the UI thread's event loop
Posted == SubSeq(queue, Len(last.pre.queue) + 1, Len(queue))

\* C28: every load_async emits loadStarted first and ends in exactly one of
\* loadFinished, preceded by a dataChanged that carries the value loaded
\* from that path, or loadFailed for that path, never both.  (The part that
\* can fail in a finite run: what each step of a load emits.)
LoadAsyncOutcome ==
    /\ last.op = "load_async" =>
         /\ log = << [ev |-> "loadStarted", m |-> "document", path |-> last.path] >>
         /\ pool[Len(pool)].pc = "run"
    /\ last.op = "emit" =>
         /\ Count("document.dataChanged", "document") = 1
         /\ Count("loadFinished", "document") = 1
         /\ Count("loadFailed", "document") = 0
         /\ \A i \in Events("loadFinished", "document") :
              /\ log[i].path = pool[last.r].path
              /\ \A j \in Events("document.dataChanged", "document") : j < i
         /\ Posted # <<>>
         /\ \A i \in 1..Len(Posted) : Posted[i].data = pool[last.r].data
    /\ (last.op = "run" /\ pool[last.r].pc = "failed") =>
         log = << [ev |-> "loadFailed", m |-> "document", path |-> pool[last.r].path] >>
    /\ \A r \in 1..Len(pool) :
         pool[r].pc = "done" => JsonLoads(FileTexts[pool[r].path]).ok

\* background loads were started, each has run to its end, and at least
\* one of them assigned its result
NoLoadInProgress ==
    /\ pool # <<>>
    /\ \A r \in 1..Len(pool) : pool[r].pc \in {"done", "failed"}
    /\ Landed(pool) # {}

\* C29: when load_async calls for different files run concurrently, in
\* every state in which no load is in progress the document's data and
\* file_path are those of one and the same load request
DataAndPathOfOneLoad ==
    NoLoadInProgress =>
        \E r \in Landed(pool) :
            /\ document.data = pool[r].data
            /\ document.file_path = pool[r].path

----------------------------------------------------------------------------
(* SplitterTab: the selection reduced to its top-most rows *)

\* rows selected at once in the splitter's tree
MaxSelected == 3

\* SplitterTab._index_to_path(index): the keys from the root to the item,
\* the empty path for the invalid index (item 0)
IndexToPath(heap, item) == IF item = 0 THEN <<>> ELSE ItemPath(heap, item)

\* SplitterTab._is_prefix(prefix, path)
IsPrefix(prefix, path) ==
    IF Len(prefix) > Len(path) THEN FALSE
    ELSE SubSeq(path, 1, Len(prefix)) = prefix

\* a list left in the order it came in
Unsorted(paths) == paths

RECURSIVE SortByLength(_)
\* paths.sort(key=lambda t: len(t[0])): stable, ascending by path length
SortByLength(paths) ==
    IF paths = <<>> THEN <<>>
    ELSE LET rest == SortByLength(Tail(paths))
             n == Cardinality({i \in 1..Len(rest) : Len(rest[i].path) < Len(Head(paths).path)})
         IN  SubSeq(rest, 1, n) \o <<Head(paths)>> \o SubSeq(rest, n + 1, Len(rest))

RECURSIVE KeepTopMost(_, _)
\* the loop of _normalize_selection_to_top_most: a path is kept unless a
\* path kept before it is a prefix of it
KeepTopMost(paths, kept) ==
    IF paths = <<>> THEN kept
    ELSE KeepTopMost(Tail(paths),
            IF \E i \in 1..Len(kept) : IsPrefix(kept[i].path, Head(paths).path)
            THEN kept ELSE Append(kept, Head(paths)))

\* SplitterTab._normalize_selection_to_top_most(indexes): the indexes kept
NormalizeSelectionToTopMost(heap, indexes) ==
    LET valid == SelectSeq(indexes, LAMBDA idx : idx # 0)
        paths == [i \in 1..Len(valid) |-> [path |-> IndexToPath(heap, valid[i]), idx |-> valid[i]]]
        kept == KeepTopMost(SortByLength(paths), <<>>)
    IN  [i \in 1..Len(kept) |-> kept[i].idx]

\* the documents opened in the splitter
SplitterPaths == {"f1", "f2"}

\* selectedRows(0): up to MaxSelected distinct rows of the tree, in any order
Selections(heap) ==
    UNION {{s \in [1..n -> 2..Len(heap)] : \A i, j \in 1..n : i # j => s[i] # s[j]} :
            n \in 0..MaxSelected}

InitSplitter ==
    /\ items = [m \in ModelIds |-> EmptyTree]
    /\ document = [data |-> VNull, file_path |-> NoPath]
    /\ view = [m \in ModelIds |-> InitView]
    /\ locked = FALSE
    /\ history = NoHistory
    /\ \E p \in SplitterPaths :
         input \in {[heap |-> JsonModelTree(JsonLoads(FileTexts[p]).val), indexes |-> s] :
                        s \in Selections(JsonModelTree(JsonLoads(FileTexts[p]).val))}
    /\ steps = 1
    /\ last = NoOp
    /\ log = <<>>
    /\ pool = <<>>
    /\ queue = <<>>

\* _action_confirm_selection: the selection is reduced to its top-most rows
ConfirmSelection ==
    /\ Commit(World, [op |-> "normalize",
                      result |-> NormalizeSelectionToTopMost(input.heap, input.indexes)])
    /\ UNCHANGED <<history, input>>

NextSplitter == ConfirmSelection

SpecSplitter == InitSplitter /\ [][NextSplitter]_vars

RECURSIVE ProperAncestors(_, _)
\* the items above an item, by the parent pointers, the root left out
ProperAncestors(heap, item) ==
    LET parent == heap[item].parent
    IN  IF parent = 0 \/ parent = RootItem THEN {}
        ELSE {parent} \cup ProperAncestors(heap, parent)

\* the elements of a sequence
Range(s) == {s[i] : i \in 1..Len(s)}

\* C30: for every set of selected rows _normalize_selection_to_top_most
\* returns exactly the selected indexes that have no selected proper
\* ancestor: no returned path is a prefix of another returned path, and
\* every selected index is one of the returned or a descendant of one
TopMostSelection ==
    last.op = "normalize" =>
        LET selected == Range(input.indexes)
            returned == Range(last.result)
        IN  /\ returned =
                 {i \in selected : ProperAncestors(input.heap, i) \cap selected = {}}
            /\ Cardinality(returned) = Len(last.result)
            /\ \A i, j \in returned :
                 i # j => ~IsPrefix(ItemPath(input.heap, i), ItemPath(input.heap, j))
            /\ \A i \in selected :
                 \E j \in returned : j = i \/ j \in ProperAncestors(input.heap, i)

\* a row, a row below it listed before it, and a row elsewhere were
\* selected: the row below was dropped, the other two were returned
TopMostWitness ==
    /\ last.op = "normalize"
    /\ Len(input.indexes) = 3
    /\ input.indexes[2] \in ProperAncestors(input.heap, input.indexes[1])
    /\ ProperAncestors(input.heap, input.indexes[3]) \cap Range(input.indexes) = {}
    /\ input.indexes[3] \notin ProperAncestors(input.heap, input.indexes[1])
    /\ last.result = << input.indexes[2], input.indexes[3] >>

====
